---- MODULE Spec2Model ----
(***************************************************************************)
(* A model of the Mini toolchain's AVM emulator (src/src/emulator.rs), of  *)
(* the run driver (src/src/run/mod.rs) and of the runtime environment's    *)
(* inbox (src/src/run/runtime_env.rs).                                     *)
(*                                                                         *)
(* A Uint256 is the sequence of its 32 big-endian bytes, so that every     *)
(* operation keeps the full 256-bit width.  A Value is a record with a     *)
(* kind ("Int", "CodePoint", "Tuple") and the payload of that kind.        *)
(***************************************************************************)
EXTENDS Integers, Sequences, FiniteSets, TLC

(***************************************************************************)
(* Bounds of the model.                                                    *)
(***************************************************************************)
MaxSteps == 6        \* instructions one machine executes before the model stops following it
MaxInbox == 2        \* messages the driver inserts after construction
MaxResets == 1       \* resets the driver performs
MaxEnvOps == 2       \* operations on a RuntimeEnvironment
MaxProgs == 2        \* programs handed to the linker, the builtins not counted

(***************************************************************************)
(* Option (Some / None of the host language).                              *)
(***************************************************************************)
None == [some |-> FALSE]
Some(v) == [some |-> TRUE, val |-> v]

(***************************************************************************)
(* Uint256 (crate::uint256, section 4.1 of the specification).  The byte   *)
(* loops halve their range, which keeps the evaluation shallow.            *)
(***************************************************************************)
WordBytes == 32

ZeroOfLen(n) == SubSeq([i \in 1..n |-> 0], 1, n)

zero == ZeroOfLen(WordBytes)

\* Uint256::from_usize for the host integers the model uses (< 2^31)
from_usize(n) ==
    SubSeq([i \in 1..WordBytes |->
              IF i <= WordBytes - 4 THEN 0 ELSE (n \div (256 ^ (WordBytes - i))) % 256],
           1, WordBytes)

one == from_usize(1)

\* 2^255, the most negative two's-complement value
MinSigned == SubSeq([i \in 1..WordBytes |-> IF i = 1 THEN 128 ELSE 0], 1, WordBytes)

\* index of the first non-zero byte from i on, Len(a) + 1 when there is none
RECURSIVE FirstNonZero(_, _)
FirstNonZero(a, i) ==
    IF i > Len(a) THEN i
    ELSE IF a[i] # 0 THEN i ELSE FirstNonZero(a, i + 1)

\* a < b, unsigned, on byte sequences of the same length
less_than(a, b) ==
    \E i \in 1..Len(a) : a[i] < b[i] /\ \A j \in 1..(i - 1) : a[j] = b[j]

\* bytes lo..hi of a + b with the carry c into byte hi, and the carry out of byte lo
RECURSIVE AddRange(_, _, _, _, _)
AddRange(a, b, lo, hi, c) ==
    IF lo > hi THEN [s |-> <<>>, c |-> c]
    ELSE IF lo = hi
    THEN LET t == a[lo] + b[lo] + c
         IN  IF t < 256 THEN [s |-> <<t>>, c |-> 0] ELSE [s |-> <<t - 256>>, c |-> 1]
    ELSE LET mid  == (lo + hi) \div 2
             low  == AddRange(a, b, mid + 1, hi, c)
             high == IF low.c = 0 THEN AddRange(a, b, lo, mid, 0) ELSE AddRange(a, b, lo, mid, 1)
         IN  [s |-> high.s \o low.s, c |-> high.c]

\* a + b + c mod 256^Len(a)
AddCarry(a, b, c) == AddRange(a, b, 1, Len(a), c).s

add(a, b) == AddCarry(a, b, 0)

bitwise_neg(a) == SubSeq([i \in 1..Len(a) |-> 255 - a[i]], 1, Len(a))

sub(a, b) == AddCarry(a, bitwise_neg(b), 1)

\* the two's complement of a
Negate(a) == sub(ZeroOfLen(Len(a)), a)

\* bytes lo..hi of a * d for one byte d with the carry c into byte hi
RECURSIVE MulRange(_, _, _, _, _)
MulRange(a, d, lo, hi, c) ==
    IF lo > hi THEN [s |-> <<>>, c |-> c]
    ELSE IF lo = hi
    THEN LET t == a[lo] * d + c
         IN  [s |-> <<t % 256>>, c |-> t \div 256]
    ELSE LET mid  == (lo + hi) \div 2
             low  == MulRange(a, d, mid + 1, hi, c)
             high == IF low.c = 0 THEN MulRange(a, d, lo, mid, 0)
                     ELSE MulRange(a, d, lo, mid, low.c)
         IN  [s |-> high.s \o low.s, c |-> high.c]

\* acc + a * (bytes lo..hi of b), wrapping
RECURSIVE MulAcc(_, _, _, _, _)
MulAcc(a, b, lo, hi, acc) ==
    IF lo > hi THEN acc
    ELSE IF lo = hi
    THEN IF b[lo] = 0 THEN acc
         ELSE LET row == MulRange(a, b[lo], 1, Len(a), 0).s
                  k   == Len(b) - lo
              IN  add(acc, SubSeq(row, k + 1, Len(row)) \o ZeroOfLen(k))
    ELSE LET mid  == (lo + hi) \div 2
             acc1 == MulAcc(a, b, lo, mid, acc)
         IN  IF Len(acc1) = 0 THEN acc1 ELSE MulAcc(a, b, mid + 1, hi, acc1)

mul(a, b) == MulAcc(a, b, FirstNonZero(b, 1), Len(b), ZeroOfLen(Len(a)))

\* a widened to n bytes
Pad(a, n) == ZeroOfLen(n - Len(a)) \o a

\* binary long division: the remainder st.r takes in the bits k..0 of the
\* byte d, and the quotient st.q the byte qb they give
RECURSIVE DivBits(_, _, _, _, _)
DivBits(d, b, k, qb, st) ==
    IF k < 0 THEN [q |-> Append(st.q, qb), r |-> st.r]
    ELSE LET r2 == AddCarry(st.r, st.r, (d \div (2 ^ k)) % 2)
         IN  IF less_than(r2, b) THEN DivBits(d, b, k - 1, 2 * qb, [st EXCEPT !.r = r2])
             ELSE DivBits(d, b, k - 1, 2 * qb + 1, [st EXCEPT !.r = sub(r2, b)])

\* long division over the bytes lo..hi of a, from the quotient and the
\* remainder st found so far; the remainder is one byte wider than a
RECURSIVE DivRange(_, _, _, _, _)
DivRange(a, b, lo, hi, st) ==
    IF lo > hi THEN st
    ELSE IF lo = hi THEN DivBits(a[lo], b, 7, 0, st)
    ELSE LET mid == (lo + hi) \div 2
             st1 == DivRange(a, b, lo, mid, st)
         IN  IF Len(st1.r) = 0 THEN st1 ELSE DivRange(a, b, mid + 1, hi, st1)

\* quotient q (Len(a) bytes) and remainder r (one byte wider) of a by b # 0
DivMod(a, b) ==
    LET k0 == FirstNonZero(a, 1)
    IN  DivRange(a, Pad(b, Len(a) + 1), k0, Len(a),
                 [q |-> ZeroOfLen(k0 - 1), r |-> ZeroOfLen(Len(a) + 1)])

div(a, b) == IF b = zero THEN None ELSE Some(DivMod(a, b).q)
modulo(a, b) == IF b = zero THEN None ELSE Some(Tail(DivMod(a, b).r))

\* the sign bit of the two's-complement view, the value of a magnitude
\* under a sign, and the magnitude
IsNeg(a) == a[1] >= 128
Signed(neg, a) == IF neg THEN Negate(a) ELSE a
Abs(a) == Signed(IsNeg(a), a)

sdiv(a, b) ==
    IF b = zero THEN None
    ELSE Some(Signed(IsNeg(a) # IsNeg(b), DivMod(Abs(a), Abs(b)).q))

smodulo(a, b) ==
    IF b = zero THEN None
    ELSE Some(Signed(IsNeg(a), Tail(DivMod(Abs(a), Abs(b)).r)))

\* the sum and the product are formed in 512 bits, then reduced
add_mod(a, b, m) ==
    IF m = zero THEN None
    ELSE LET w == 2 * WordBytes
         IN  Some(SubSeq(DivMod(add(Pad(a, w), Pad(b, w)), Pad(m, w)).r, WordBytes + 2, w + 1))

mul_mod(a, b, m) ==
    IF m = zero THEN None
    ELSE LET w == 2 * WordBytes
         IN  Some(SubSeq(DivMod(mul(Pad(a, w), Pad(b, w)), Pad(m, w)).r, WordBytes + 2, w + 1))

\* a div 2
Shr1(a) ==
    SubSeq([i \in 1..Len(a) |-> (a[i] \div 2) + (IF i > 1 THEN (a[i - 1] % 2) * 128 ELSE 0)],
           1, Len(a))

\* a^e mod 2^256 by square and multiply, acc the product so far
RECURSIVE ExpAcc(_, _, _)
ExpAcc(a, e, acc) ==
    IF e = zero THEN acc
    ELSE LET acc2 == IF e[Len(e)] % 2 = 1 THEN mul(acc, a) ELSE acc
         IN  IF Len(acc2) = 0 \/ Len(a) = 0 THEN acc ELSE ExpAcc(mul(a, a), Shr1(e), acc2)

exp(a, e) == ExpAcc(a, e, one)

unary_minus(a) == IF a = MinSigned THEN None ELSE Some(Negate(a))

\* one bit operation on two bytes, bit by bit from bit k up
RECURSIVE Bits8(_, _, _, _)
Bits8(x, y, k, op) ==
    IF k = 8 THEN 0
    ELSE LET s == (x % 2) + (y % 2)
             b == IF op = "and" THEN s \div 2 ELSE IF op = "or" THEN (s + 1) \div 2 ELSE s % 2
         IN  b + 2 * Bits8(x \div 2, y \div 2, k + 1, op)

\* bitwise_and, bitwise_or, bitwise_xor
bitwise(a, b, op) == SubSeq([i \in 1..Len(a) |-> Bits8(a[i], b[i], 0, op)], 1, Len(a))

s_less_than(a, b) == IF IsNeg(a) # IsNeg(b) THEN IsNeg(a) ELSE less_than(a, b)

\* to_usize: the host word is 64 bits wide, the value is absent above
\* 2^64 - 1; the model keeps a usize as the Uint256 it came from
to_usize(a) == IF \A i \in 1..(WordBytes - 8) : a[i] = 0 THEN Some(a) ELSE None

\* the number a small usize (< 2^24) stands for
SmallNat(a) == a[WordBytes] + 256 * a[WordBytes - 1] + 65536 * a[WordBytes - 2]

(***************************************************************************)
(* Values, code points and instructions (crate::mavm).                     *)
(***************************************************************************)
Value_Int(u) == [kind |-> "Int", uint |-> u]
Value_CodePoint(cp) == [kind |-> "CodePoint", cp |-> cp]
Value_Tuple(vs) == [kind |-> "Tuple", items |-> vs]
Value_none == Value_Tuple(<<>>)

Internal(pc) == [kind |-> "Internal", pc |-> pc]
External(slot) == [kind |-> "External", pc |-> slot]

\* CodePt::incr: the next internal code point, absent for an external one
CodePt_incr(cp) == IF cp.kind = "Internal" THEN Some(Internal(cp.pc + 1)) ELSE None

\* Instruction::from_opcode and Instruction::from_opcode_imm
from_opcode(op) == [opcode |-> op, immediate |-> None]
from_opcode_imm(op, v) == [opcode |-> op, immediate |-> Some(v)]

\* a stand-in for keccak256: a fixed mixing of the input bytes into 32 bytes
keccak256(bs) ==
    SubSeq([i \in 1..WordBytes |->
              IF bs = <<>> THEN i ELSE (3 * bs[((7 * i) % Len(bs)) + 1] + i + Len(bs)) % 256],
           1, WordBytes)

\* the 32 bytes of Value::avm_hash: a tuple hashes the hashes of its items
RECURSIVE avm_hash(_)
avm_hash(v) ==
    IF v.kind = "Int" THEN keccak256(v.uint)
    ELSE IF v.kind = "CodePoint"
    THEN keccak256(<<IF v.cp.kind = "Internal" THEN 1 ELSE 2>> \o from_usize(v.cp.pc))
    ELSE keccak256(<<Len(v.items)>> \o
                   SubSeq([j \in 1..(WordBytes * Len(v.items)) |->
                             avm_hash(v.items[((j - 1) \div WordBytes) + 1])
                                     [((j - 1) % WordBytes) + 1]],
                          1, WordBytes * Len(v.items)))

(***************************************************************************)
(* ExecutionError and MachineState (src/src/emulator.rs).                  *)
(***************************************************************************)
Stopped == [kind |-> "Stopped"]
Error(e) == [kind |-> "Error", err |-> e]
Running(cp) == [kind |-> "Running", pc |-> cp]

RunningErr(why, cp, ov) == [kind |-> "RunningErr", why |-> why, pc |-> cp, val |-> ov]

ExecutionError_new(why, st, val) ==
    IF st.kind = "Stopped" THEN [kind |-> "StoppedErr", why |-> why]
    ELSE IF st.kind = "Error" THEN [kind |-> "Wrapped", why |-> why, inner |-> st.err]
    ELSE RunningErr(why, st.pc, val)

(***************************************************************************)
(* ValueStack: a sequence whose last element is the top.  A pop gives ok,  *)
(* the value (or the error), and the stack it leaves.                      *)
(***************************************************************************)
PopErr(why, st, val, s) == [ok |-> FALSE, err |-> ExecutionError_new(why, st, val), stk |-> s]

pop(s, st) ==
    IF s = <<>> THEN PopErr("stack underflow", st, None, s)
    ELSE [ok |-> TRUE, val |-> s[Len(s)], stk |-> SubSeq(s, 1, Len(s) - 1)]

\* the payload of a Value
Payload(v) ==
    CASE v.kind = "Int" -> v.uint
      [] v.kind = "CodePoint" -> v.cp
      [] v.kind = "Tuple" -> v.items

\* the typed pops look at what pop gave: a failed pop is passed on, a value
\* of the kind asked for gives its payload, any other value is an error
Typed(p, st, kind, why) ==
    IF ~p.ok THEN p
    ELSE IF p.val.kind = kind THEN [p EXCEPT !.val = Payload(@)]
    ELSE PopErr(why, st, Some(p.val), p.stk)

pop_codepoint(s, st) == Typed(pop(s, st), st, "CodePoint", "expected CodePoint on stack")

pop_uint(s, st) == Typed(pop(s, st), st, "Int", "expected integer on stack")

pop_tuple(s, st) == Typed(pop(s, st), st, "Tuple", "expected tuple on stack")

\* pop_usize on what pop_uint gave
UsizeOf(p, st) ==
    IF ~p.ok THEN p
    ELSE IF to_usize(p.val).some THEN p
    ELSE PopErr("expected small integer on stack", st, Some(Value_Int(p.val)), p.stk)

pop_usize(s, st) == UsizeOf(pop_uint(s, st), st)

\* pop_bool on what pop_usize gave
BoolOf(p, st) ==
    IF ~p.ok THEN PopErr("expected bool on stack", st, None, p.stk)
    ELSE IF p.val = zero THEN [p EXCEPT !.val = FALSE]
    ELSE IF p.val = one THEN [p EXCEPT !.val = TRUE]
    ELSE PopErr("expected bool on stack", st, Some(Value_Int(p.val)), p.stk)

pop_bool(s, st) == BoolOf(pop_usize(s, st), st)

\* the pop an opcode asks for
PopAs(s, st, kind) ==
    CASE kind = "value" -> pop(s, st)
      [] kind = "codepoint" -> pop_codepoint(s, st)
      [] kind = "uint" -> pop_uint(s, st)
      [] kind = "usize" -> pop_usize(s, st)
      [] kind = "bool" -> pop_bool(s, st)
      [] kind = "tuple" -> pop_tuple(s, st)

(***************************************************************************)
(* RuntimeEnvironment: the L1 inbox and the log sink as the machine uses   *)
(* them.                                                                   *)
(***************************************************************************)
\* a faulty get_from_inbox: the message is read but stays in the inbox
get_from_inbox_keep(inbox) ==
    IF inbox = <<>> THEN [val |-> None, l1_inbox |-> inbox]
    ELSE [val |-> Some(inbox[1]), l1_inbox |-> inbox]

\* a faulty get_from_inbox: the newest message is taken
get_from_inbox_newest(inbox) ==
    IF inbox = <<>> THEN [val |-> None, l1_inbox |-> inbox]
    ELSE [val |-> Some(inbox[Len(inbox)]), l1_inbox |-> SubSeq(inbox, 1, Len(inbox) - 1)]

\* RuntimeEnvironment::get_from_inbox: the head of the inbox, removed; absent when empty
get_from_inbox(inbox) ==
    IF inbox = <<>> THEN [val |-> None, l1_inbox |-> inbox]
    ELSE [val |-> Some(inbox[1]), l1_inbox |-> Tail(inbox)]

\* insert_messages, called by run_with_msgs: the messages join the inbox in order
insert_messages(inbox, msgs) == inbox \o msgs

\* the Value the Inbox opcode pushes for a message: test_inbox_and_log reads
\* the message back with Tget 1, so the message sits in slot 1 of a tuple
InboxValue(msg) == Value_Tuple(<<Value_none, msg>>)

(***************************************************************************)
(* Machine::run_one.  m is the machine: stack, aux_stack, state, register, *)
(* static_val, l1_inbox, logs, and panicked (the host language raised a    *)
(* panic).  A step gives the machine and the Result<bool, ExecutionError>  *)
(* of run_one.                                                             *)
(***************************************************************************)
Ok(b) == [ok |-> TRUE, val |-> b]
Err(e) == [ok |-> FALSE, err |-> e]
Ret(m, r) == [m |-> m, res |-> r]
Raise(m, why, val) == Ret(m, Err(ExecutionError_new(why, m.state, val)))

push(m, v) == [m EXCEPT !.stack = Append(@, v)]
push_uint(m, u) == push(m, Value_Int(u))
push_bool(m, b) == push_uint(m, IF b THEN one ELSE zero)

\* one more operand p, popped with a typed pop, joins those popped so far;
\* when the pop failed, res is what run_one returns
PopInto(acc, p) ==
    IF p.ok THEN [ok |-> TRUE, r |-> Append(acc.r, p.val), m |-> [acc.m EXCEPT !.stack = p.stk]]
    ELSE [ok |-> FALSE, res |-> Ret([acc.m EXCEPT !.stack = p.stk], Err(p.err))]

\* the operands of the kinds an opcode pops in turn; the first pop that fails ends it
RECURSIVE PopsFrom(_, _)
PopsFrom(acc, kinds) ==
    IF ~acc.ok THEN acc
    ELSE IF Len(acc.r) = Len(kinds) THEN acc
    ELSE PopsFrom(PopInto(acc, PopAs(acc.m.stack, acc.m.state, kinds[Len(acc.r) + 1])), kinds)

Pops(m, kinds) == PopsFrom([ok |-> TRUE, r |-> <<>>, m |-> m], kinds)

\* Machine::incr_pc: panics on an external pc and on a machine that is not running
incr_pc(m) ==
    IF m.state.kind = "Running" /\ CodePt_incr(m.state.pc).some
    THEN [m EXCEPT !.state = Running(CodePt_incr(m.state.pc).val)]
    ELSE [m EXCEPT !.panicked = TRUE]

\* the end of an opcode that does not transfer control
Done(m) == Ret(incr_pc(m), Ok(TRUE))

\* the end of an opcode whose Uint256 operation may have no result
PushOpt(m, ores, why) ==
    IF ores.some THEN Done(push_uint(m, ores.val)) ELSE Raise(m, why, None)

(***************************************************************************)
(* The arms of the match on insn.opcode.  m is the machine after the pops  *)
(* the arm starts with, r the operands they gave, in the order popped.     *)
(***************************************************************************)
\* a faulty Panic arm: the opcode does nothing
OpPanic_noop(m) == Done(m)

OpPanic(m) == Raise(m, "panicked", None)

OpJump(m, r) == Ret([m EXCEPT !.state = Running(r[1])], Ok(TRUE))

\* a faulty Cjump arm: the jump is taken whatever the condition
OpCjump_always(m, r) == Ret([m EXCEPT !.state = Running(r[1])], Ok(TRUE))

OpCjump(m, r) ==
    IF r[2] THEN Ret([m EXCEPT !.state = Running(r[1])], Ok(TRUE)) ELSE Done(m)

\* a faulty Tset arm: the bounds check admits idx = len
OpTset_le(m, r) ==
    IF ~less_than(from_usize(Len(r[2])), r[1])
    THEN Done(push(m, Value_Tuple([r[2] EXCEPT ![SmallNat(r[1]) + 1] = r[3]])))
    ELSE Raise(m, "index out of bounds in Tset", None)

OpTset(m, r) ==
    IF less_than(r[1], from_usize(Len(r[2])))
    THEN Done(push(m, Value_Tuple([r[2] EXCEPT ![SmallNat(r[1]) + 1] = r[3]])))
    ELSE Raise(m, "index out of bounds in Tset", None)

OpTget(m, r) ==
    IF less_than(r[1], from_usize(Len(r[2])))
    THEN Done(push(m, r[2][SmallNat(r[1]) + 1]))
    ELSE Raise(m, "index out of bounds in Tget", None)

\* AuxPop: the pop is off the aux stack
OpAuxPop(m) ==
    LET p == pop(m.aux_stack, m.state)
    IN  IF ~p.ok THEN Ret(m, Err(p.err))
        ELSE Done(push([m EXCEPT !.aux_stack = p.stk], p.val))

\* a faulty Xget arm: the tuple is popped off the aux stack
OpXget_pops(m, r) ==
    IF m.aux_stack = <<>> THEN Raise(m, "aux stack underflow", None)
    ELSE LET aux_top == m.aux_stack[Len(m.aux_stack)]
         IN  IF aux_top.kind # "Tuple"
             THEN Raise(m, "expected tuple on aux stack", Some(aux_top))
             ELSE IF less_than(r[1], from_usize(Len(aux_top.items)))
             THEN Done(push([m EXCEPT !.aux_stack = SubSeq(@, 1, Len(@) - 1)],
                            aux_top.items[SmallNat(r[1]) + 1]))
             ELSE Raise(m, "tuple access out of bounds", None)

\* Xget reads the top of the aux stack and leaves it there
OpXget(m, r) ==
    IF m.aux_stack = <<>> THEN Raise(m, "aux stack underflow", None)
    ELSE LET aux_top == m.aux_stack[Len(m.aux_stack)]
         IN  IF aux_top.kind # "Tuple"
             THEN Raise(m, "expected tuple on aux stack", Some(aux_top))
             ELSE IF less_than(r[1], from_usize(Len(aux_top.items)))
             THEN Done(push(m, aux_top.items[SmallNat(r[1]) + 1]))
             ELSE Raise(m, "tuple access out of bounds", None)

\* Xset, t what pop_tuple gave on the aux stack: the value is popped off the
\* primary stack only when the slot is in bounds
XsetOn(m, slot_num, t) ==
    IF ~t.ok THEN Ret(m, Err(t.err))
    ELSE IF less_than(slot_num, from_usize(Len(t.val)))
    THEN LET v == pop(m.stack, m.state)
         IN  IF ~v.ok THEN Ret(m, Err(v.err))
             ELSE Done([m EXCEPT !.stack = v.stk,
                                 !.aux_stack = Append(@, Value_Tuple([t.val EXCEPT
                                                 ![SmallNat(slot_num) + 1] = v.val]))])
    ELSE Raise(m, "tuple access out of bounds", None)

OpXset(m, r) ==
    XsetOn([m EXCEPT !.aux_stack = pop_tuple(m.aux_stack, m.state).stk], r[1],
           pop_tuple(m.aux_stack, m.state))
\* a faulty division arm: one reason for all four opcodes
OpDivide_one_reason(op, m, r) ==
    PushOpt(m,
            CASE op = "Div" -> div(r[1], r[2])
              [] op = "Mod" -> modulo(r[1], r[2])
              [] op = "Sdiv" -> sdiv(r[1], r[2])
              [] op = "Smod" -> smodulo(r[1], r[2]),
            "divide by zero")

\* Div, Sdiv, Mod, Smod: the second operand popped is the divisor
OpDivide(op, m, r) ==
    PushOpt(m,
            CASE op = "Div" -> div(r[1], r[2])
              [] op = "Mod" -> modulo(r[1], r[2])
              [] op = "Sdiv" -> sdiv(r[1], r[2])
              [] op = "Smod" -> smodulo(r[1], r[2]),
            IF op \in {"Div", "Sdiv"} THEN "divide by zero" ELSE "modulo by zero")

\* AddMod, MulMod: the third operand popped is the modulus
OpModular(op, m, r) ==
    PushOpt(m,
            IF op = "AddMod" THEN add_mod(r[1], r[2], r[3]) ELSE mul_mod(r[1], r[2], r[3]),
            "modulo by zero")

OpUnaryMinus(m, r) ==
    PushOpt(m, unary_minus(r[1]), "signed integer overflow in unary minus")

\* the opcodes that pop two integers and push one
OpBinary(op, r1, r2) ==
    CASE op = "Plus" -> add(r1, r2)
      [] op = "Minus" -> sub(r1, r2)
      [] op = "Mul" -> mul(r1, r2)
      [] op = "Exp" -> exp(r1, r2)
      [] op = "BitwiseAnd" -> bitwise(r1, r2, "and")
      [] op = "BitwiseOr" -> bitwise(r1, r2, "or")
      [] op = "BitwiseXor" -> bitwise(r1, r2, "xor")

\* the comparisons of two integers
OpCompare(op, r1, r2) ==
    CASE op = "LessThan" -> less_than(r1, r2)
      [] op = "GreaterThan" -> less_than(r2, r1)
      [] op = "SLessThan" -> s_less_than(r1, r2)
      [] op = "SGreaterThan" -> s_less_than(r2, r1)

\* Byte: the shift is a power of one
OpByte(r1, r2) ==
    IF less_than(r1, from_usize(32))
    THEN bitwise(div(r2, exp(one, from_usize(8 * (31 - SmallNat(to_usize(r1).val))))).val,
                 from_usize(255), "and")
    ELSE zero

\* SignExtend on x with the bits above shifted_bit as the sign
SignExtendAt(x, shifted_bit) ==
    IF bitwise(x, shifted_bit, "and") # zero
    THEN bitwise(x, sub(shifted_bit, one), "and")
    ELSE bitwise(x, bitwise_neg(sub(shifted_bit, one)), "or")

OpSignExtend(bnum, x) ==
    IF ~to_usize(bnum).some THEN x
    ELSE IF less_than(from_usize(31), bnum) THEN x
    ELSE SignExtendAt(x, exp(from_usize(2), from_usize(248 - SmallNat(bnum))))

\* Inbox: the next message of the inbox is pushed; on an empty inbox the
\* machine blocks: no error, the pc is not advanced, run_one reports that it
\* did not run
OpInbox(m) ==
    LET g == get_from_inbox(m.l1_inbox)
    IN  IF g.val.some
        THEN Done(push([m EXCEPT !.l1_inbox = g.l1_inbox], InboxValue(g.val.val)))
        ELSE Ret(m, Ok(FALSE))

\* Log: the popped value is appended to the log sink
OpLog(m, r) == Done([m EXCEPT !.logs = Append(@, r[1])])
\* the opcodes of the compiler's intermediate code, which must not reach the emulator
CompileTimeOpcodes ==
    {"GetLocal", "SetLocal", "MakeFrame", "Label", "PushExternal", "TupleGet", "TupleSet",
     "ArrayGet", "UncheckedFixedArrayGet", "GetGlobalVar", "SetGlobalVar", "Return"}

\* the typed pops off the primary stack that the arm of an opcode starts with
Operands(op) ==
    CASE op \in {"Rset", "Pop", "AuxPush", "Dup0", "Hash", "DebugPrint", "Log"} -> <<"value">>
      [] op \in {"Dup1", "Swap1", "Equal", "NotEqual", "Hash2"} -> <<"value", "value">>
      [] op \in {"Dup2", "Swap2"} -> <<"value", "value", "value">>
      [] op = "Jump" -> <<"codepoint">>
      [] op = "Cjump" -> <<"codepoint", "bool">>
      [] op = "Tset" -> <<"usize", "tuple", "value">>
      [] op = "Tget" -> <<"usize", "tuple">>
      [] op \in {"Xget", "Xset"} -> <<"usize">>
      [] op = "Not" -> <<"bool">>
      [] op \in {"UnaryMinus", "BitwiseNeg"} -> <<"uint">>
      [] op = "Len" -> <<"tuple">>
      [] op \in {"Plus", "Minus", "Mul", "Div", "Mod", "Sdiv", "Smod", "Exp", "LessThan",
                 "GreaterThan", "SLessThan", "SGreaterThan", "BitwiseAnd", "BitwiseOr",
                 "BitwiseXor", "Byte", "SignExtend"} -> <<"uint", "uint">>
      [] op \in {"AddMod", "MulMod"} -> <<"uint", "uint", "uint">>
      [] op \in {"LogicalAnd", "LogicalOr"} -> <<"bool", "bool">>
      [] OTHER -> <<>>

\* a faulty table of the same opcodes: Dup1 forgets the copy it pushes on top
OpPlain_dup(op, m, r) ==
    CASE op \in {"Noop", "Pop", "DebugPrint"} -> m
      [] op = "GetPC" -> push(m, Value_CodePoint(m.state.pc))
      [] op = "Rget" -> push(m, m.register)
      [] op = "Rset" -> [m EXCEPT !.register = r[1]]
      [] op = "PushStatic" -> push(m, m.static_val)
      [] op = "AuxPush" -> [m EXCEPT !.aux_stack = Append(@, r[1])]
      [] op = "Dup0" -> push(push(m, r[1]), r[1])
      [] op = "Dup1" -> push(push(m, r[2]), r[1])
      [] op = "Dup2" -> push(push(push(push(m, r[3]), r[2]), r[1]), r[3])
      [] op = "Swap1" -> push(push(m, r[1]), r[2])
      [] op = "Swap2" -> push(push(push(m, r[1]), r[2]), r[3])

\* a faulty table of the same opcodes: Rset writes the static value
OpPlain_static(op, m, r) ==
    CASE op \in {"Noop", "Pop", "DebugPrint"} -> m
      [] op = "GetPC" -> push(m, Value_CodePoint(m.state.pc))
      [] op = "Rget" -> push(m, m.register)
      [] op = "Rset" -> [m EXCEPT !.static_val = r[1]]
      [] op = "PushStatic" -> push(m, m.static_val)
      [] op = "AuxPush" -> [m EXCEPT !.aux_stack = Append(@, r[1])]
      [] op = "Dup0" -> push(push(m, r[1]), r[1])
      [] op = "Dup1" -> push(push(push(m, r[2]), r[1]), r[2])
      [] op = "Dup2" -> push(push(push(push(m, r[3]), r[2]), r[1]), r[3])
      [] op = "Swap1" -> push(push(m, r[1]), r[2])
      [] op = "Swap2" -> push(push(push(m, r[1]), r[2]), r[3])

\* the opcodes that move values about; top, snd, trd as popped
OpPlain(op, m, r) ==
    CASE op \in {"Noop", "Pop", "DebugPrint"} -> m
      [] op = "GetPC" -> push(m, Value_CodePoint(m.state.pc))
      [] op = "Rget" -> push(m, m.register)
      [] op = "Rset" -> [m EXCEPT !.register = r[1]]
      [] op = "PushStatic" -> push(m, m.static_val)
      [] op = "AuxPush" -> [m EXCEPT !.aux_stack = Append(@, r[1])]
      [] op = "Dup0" -> push(push(m, r[1]), r[1])
      [] op = "Dup1" -> push(push(push(m, r[2]), r[1]), r[2])
      [] op = "Dup2" -> push(push(push(push(m, r[3]), r[2]), r[1]), r[3])
      [] op = "Swap1" -> push(push(m, r[1]), r[2])
      [] op = "Swap2" -> push(push(push(m, r[1]), r[2]), r[3])

\* the opcodes that push one integer made of their operands
OpValue(op, r) ==
    CASE op = "Not" -> from_usize(IF r[1] THEN 0 ELSE 1)
      [] op = "BitwiseNeg" -> bitwise_neg(r[1])
      [] op = "Hash" -> avm_hash(r[1])
      [] op = "Len" -> from_usize(Len(r[1]))
      [] op \in {"Plus", "Minus", "Mul", "Exp", "BitwiseAnd", "BitwiseOr", "BitwiseXor"}
            -> OpBinary(op, r[1], r[2])
      [] op \in {"LessThan", "GreaterThan", "SLessThan", "SGreaterThan"}
            -> from_usize(IF OpCompare(op, r[1], r[2]) THEN 1 ELSE 0)
      [] op = "Equal" -> from_usize(IF r[1] = r[2] THEN 1 ELSE 0)
      [] op = "NotEqual" -> from_usize(IF r[1] # r[2] THEN 1 ELSE 0)
      [] op = "Byte" -> OpByte(r[1], r[2])
      [] op = "SignExtend" -> OpSignExtend(r[1], r[2])
      [] op = "LogicalAnd" -> IF r[1] /\ r[2] THEN one ELSE zero
      [] op = "LogicalOr" -> IF r[1] \/ r[2] THEN one ELSE zero
      [] op = "Hash2" -> keccak256(avm_hash(r[1]) \o avm_hash(r[2]))

\* the match on insn.opcode, after the pops the arm starts with
Dispatch(op, m, r) ==
    CASE op \in {"Noop", "GetPC", "Rget", "Rset", "PushStatic", "Pop", "AuxPush", "Dup0", "Dup1",
                 "Dup2", "Swap1", "Swap2", "DebugPrint"} -> Done(OpPlain(op, m, r))
      [] op \in {"Not", "BitwiseNeg", "Hash", "Len", "Plus", "Minus", "Mul", "Exp", "LessThan",
                 "GreaterThan", "SLessThan", "SGreaterThan", "Equal", "NotEqual", "BitwiseAnd",
                 "BitwiseOr", "BitwiseXor", "Byte", "SignExtend", "LogicalAnd", "LogicalOr",
                 "Hash2"} -> Done(push_uint(m, OpValue(op, r)))
      [] op \in {"Div", "Mod", "Sdiv", "Smod"} -> OpDivide(op, m, r)
      [] op \in {"AddMod", "MulMod"} -> OpModular(op, m, r)
      [] op = "UnaryMinus" -> OpUnaryMinus(m, r)
      [] op = "Panic" -> OpPanic(m)
      [] op = "Jump" -> OpJump(m, r)
      [] op = "Cjump" -> OpCjump(m, r)
      [] op = "Tset" -> OpTset(m, r)
      [] op = "Tget" -> OpTget(m, r)
      [] op = "AuxPop" -> OpAuxPop(m)
      [] op = "Xget" -> OpXget(m, r)
      [] op = "Xset" -> OpXset(m, r)
      [] op = "Inbox" -> OpInbox(m)
      [] op = "Log" -> OpLog(m, r)
      [] op \in CompileTimeOpcodes -> Raise(m, "invalid opcode", None)

\* an arm of the match: a pop that fails ends the step with its error
Execute(op, p) == IF ~p.ok THEN p.res ELSE Dispatch(op, p.m, p.r)

\* a faulty fetch: a pc past the end of the code gives the last instruction
code_get_clamp(cd, cp) ==
    IF cp.kind # "Internal" THEN [panicked |-> TRUE]
    ELSE [panicked |-> FALSE,
          insn |-> IF cp.pc < Len(cd) THEN Some(cd[cp.pc + 1])
                   ELSE IF cd # <<>> THEN Some(cd[Len(cd)]) ELSE None]

\* self.code.get(pc.pc_if_internal().unwrap()): the unwrap panics on an external pc
code_get(cd, cp) ==
    IF cp.kind # "Internal" THEN [panicked |-> TRUE]
    ELSE [panicked |-> FALSE, insn |-> IF cp.pc < Len(cd) THEN Some(cd[cp.pc + 1]) ELSE None]

\* the stack after the immediate of the instruction, if it has one, is pushed
push_immediate(m, insn) ==
    IF insn.immediate.some THEN push(m, insn.immediate.val) ELSE m

\* Machine::run_one
run_one(cd, m) ==
    IF m.state.kind # "Running"
    THEN Raise(m, "tried to run machine that is not runnable", None)
    ELSE LET g == code_get(cd, m.state.pc)
         IN  IF g.panicked THEN Ret([m EXCEPT !.panicked = TRUE], Ok(TRUE))
             ELSE IF ~g.insn.some THEN Raise(m, "invalid program counter", None)
             ELSE Execute(g.insn.val.opcode,
                          Pops(push_immediate(m, g.insn.val), Operands(g.insn.val.opcode)))

(***************************************************************************)
(* The programs and inputs the model runs.                                 *)
(***************************************************************************)
U(n) == Value_Int(from_usize(n))
Op(name) == from_opcode(name)

\* a push is a Noop that carries the value as its immediate
Push(v) == from_opcode_imm("Noop", v)

\* 0x0102...20: byte i (from the most significant, 0-based) is i + 1
Ramp == SubSeq([i \in 1..WordBytes |-> i], 1, WordBytes)

Pair == Value_Tuple(<<U(7), U(8)>>)

AddProg == <<Push(U(2)), Push(U(3)), Op("Plus")>>
CjumpProg ==
    <<Push(U(1)), Push(Value_CodePoint(Internal(3))), Op("Cjump"), Op("Panic"), Push(U(7))>>
DivZeroProg == <<Push(U(0)), Push(U(10)), Op("Div")>>
\* the program of test_inbox_and_log
InboxLogProg == <<Op("Inbox"), from_opcode_imm("Tget", U(1)), Op("Log"), Op("Inbox")>>
ExternalJumpProg == <<Push(Value_CodePoint(External(0))), Op("Jump")>>

\* programs that read the inbox
InboxProgs ==
    {InboxLogProg,
     <<Op("Inbox"), Op("Log"), Op("Inbox")>>,
     <<Push(U(5)), Op("Log"), Op("Inbox"), Op("Log"), Push(Value_CodePoint(Internal(0))),
       Op("Jump")>>}

RuntimeOpcodes ==
    {"Noop", "Panic", "Jump", "Cjump", "GetPC", "Rget", "Rset", "PushStatic", "Tset", "Tget",
     "Pop", "AuxPush", "AuxPop", "Xget", "Xset", "Dup0", "Dup1", "Dup2", "Swap1", "Swap2",
     "Not", "UnaryMinus", "BitwiseNeg", "Hash", "Len", "Plus", "Minus", "Mul", "Div", "Mod",
     "Sdiv", "Smod", "AddMod", "MulMod", "Exp", "LessThan", "GreaterThan", "SLessThan",
     "SGreaterThan", "Equal", "NotEqual", "BitwiseAnd", "BitwiseOr", "BitwiseXor", "Byte",
     "SignExtend", "LogicalAnd", "LogicalOr", "Hash2", "DebugPrint", "Inbox", "Log"}

\* programs that leave the inbox alone
PlainProgs ==
    {<<>>, AddProg, CjumpProg, DivZeroProg, ExternalJumpProg,
     \* the condition is 0: the jump is not taken
     <<Push(U(0)), Push(Value_CodePoint(Internal(4))), Op("Cjump"), Op("Panic"), Push(U(7))>>,
     \* a function that returns to the address test_call pushed
     <<Push(U(2)), Push(U(3)), Op("Plus"), Op("Swap1"), Op("Jump")>>,
     \* a jump past the end of the code
     <<Push(Value_CodePoint(Internal(7))), Op("Jump")>>}
    \cup {<<Push(Value_Int(b)), Push(Value_Int(a)), Op(o)>> :
            a \in {zero, from_usize(10), MinSigned}, b \in {zero, from_usize(3)},
            o \in {"Div", "Sdiv", "Mod", "Smod"}}
    \cup {<<Push(Value_Int(c)), Push(U(4)), Push(Value_Int(a)), Op(o)>> :
            a \in {from_usize(10), bitwise_neg(zero)}, c \in {zero, from_usize(7)},
            o \in {"AddMod", "MulMod"}}
    \cup {<<Push(Value_Int(a)), Op("UnaryMinus")>> :
            a \in {zero, one, MinSigned, bitwise_neg(zero)}}
    \cup {<<Push(Value_Int(x)), Push(Value_Int(i)), Op("Byte")>> :
            x \in {one, Ramp},
            i \in {zero, one, from_usize(31), from_usize(32), bitwise_neg(zero)}}
    \cup {<<Push(Value_Int(x)), Push(Value_Int(bnum)), Op("SignExtend")>> :
            x \in {from_usize(128), from_usize(127), Ramp, bitwise_neg(zero)},
            bnum \in {zero, one, from_usize(31), from_usize(32), bitwise_neg(zero)}}
    \* Tset then Tget at the same index, in and out of bounds (2^32 fits the host word)
    \cup {<<Push(U(9)), Push(Pair), from_opcode_imm("Tset", Value_Int(i)),
             from_opcode_imm("Tget", Value_Int(i))>> :
            i \in {zero, one, from_usize(2), Pad(<<1, 0, 0, 0, 0>>, WordBytes)}}
    \cup {<<Push(Pair), from_opcode_imm("Tget", Value_Int(i))>> :
            i \in {from_usize(2), Pad(<<1, 0, 0, 0, 0>>, WordBytes), bitwise_neg(zero)}}
    \* the opcodes that pop booleans, on 0, 1 and 2
    \cup {<<Push(U(c)), Push(U(d)), Op(o)>> :
            c \in 0..2, d \in 0..2, o \in {"Not", "LogicalAnd", "LogicalOr"}}
    \* Xget / Xset against a pair or an integer on top of the aux stack
    \cup {<<Push(U(9)), Push(t), Op("AuxPush"), from_opcode_imm(o, Value_Int(i))>> :
            t \in {Pair, U(5)}, o \in {"Xget", "Xset"},
            i \in {zero, one, from_usize(2)}}
    \* Cjump on the conditions 0, 1 and 2, and a Jump whose target is its immediate
    \cup {<<Push(U(c)), Push(Value_CodePoint(Internal(t))), Op("Cjump"), Op("Noop")>> :
            c \in 0..2, t \in {0, 3}}
    \cup {<<from_opcode_imm("Jump", Value_CodePoint(Internal(2))), Op("Panic"), Push(U(7))>>}
    \* the two-operand opcodes on small and on large words
    \cup {<<Push(Value_Int(b)), Push(Value_Int(a)), Op(o)>> :
            a \in {from_usize(3), bitwise_neg(zero)}, b \in {from_usize(2), MinSigned},
            o \in {"Plus", "Minus", "Mul", "LessThan", "GreaterThan", "SLessThan",
                   "SGreaterThan", "Equal", "NotEqual", "BitwiseAnd", "BitwiseOr",
                   "BitwiseXor", "Hash2"}}
    \cup {<<Push(U(b)), Push(U(a)), Op("Exp")>> : a \in {3, 200}, b \in {0, 33}}
    \cup {<<Push(v), Op("AuxPush"), Op("AuxPop")>> : v \in {U(5), Pair}}
    \cup {<<Push(v), Op("Len")>> : v \in {Pair, Value_none}}
    \cup {<<Op(o)>> : o \in CompileTimeOpcodes}
    \* the return address is popped, then one opcode runs on the arguments of the call
    \cup {<<Op("Pop"), Op(o)>> : o \in RuntimeOpcodes}

\* the argument lists of test_call
ArgLists == {<<>>, <<U(1), U(0), U(3)>>, <<U(1), Pair, Value_CodePoint(Internal(1))>>}

\* the messages the driver feeds the inbox
Messages == {U(3), Pair}

\* the program and the in_msgs of run_with_msgs
Inputs ==
    {[code |-> c, in_msgs |-> ms] : c \in InboxProgs, ms \in {<<>>, <<U(3)>>, <<Pair, U(3)>>}}
    \cup {[code |-> c, in_msgs |-> <<>>] : c \in PlainProgs}

(***************************************************************************)
(* RuntimeEnvironment (src/src/run/runtime_env.rs).  env is the record of  *)
(* its fields; a Buffer and a Vec<u8> are sequences of bytes, a Uint256    *)
(* written with to_bytes_be is its 32 bytes.                               *)
(***************************************************************************)
\* Buffer::read_byte: the byte at offset i (from 0), 0 past the end
read_byte(buf, i) == IF i < Len(buf) THEN buf[i + 1] ELSE 0

\* RtEnvRecorder::add_msg: size is the word at offset 5 * 32 of the message,
\* and the bytes 0 .. size - 1 of the message are what is recorded
add_msg(recorder, msg) ==
    LET size == SmallNat([j \in 1..WordBytes |-> read_byte(msg, 5 * WordBytes + j - 1)])
    IN  [recorder EXCEPT !.inbox =
            Append(@, SubSeq([i \in 1..size |-> read_byte(msg, i - 1)], 1, size))]

\* a faulty insert_l1_message: the sequence number is written after its increment
insert_l1_message_late(env, msg_type, sender_addr, msg) ==
    LET l1_msg == from_usize(msg_type) \o env.current_block_num \o env.current_timestamp
                    \o sender_addr \o add(env.next_inbox_seq_num, one)
                    \o from_usize(Len(msg)) \o msg
    IN  [msg_id |-> keccak256(env.chain_id \o env.next_inbox_seq_num),
         env |-> [env EXCEPT !.next_inbox_seq_num = add(@, one),
                             !.l1_inbox = Append(@, l1_msg),
                             !.recorder = add_msg(@, l1_msg)]]

\* a faulty insert_l1_message: the sequence number stays as it is
insert_l1_message_same(env, msg_type, sender_addr, msg) ==
    LET l1_msg == from_usize(msg_type) \o env.current_block_num \o env.current_timestamp
                    \o sender_addr \o env.next_inbox_seq_num \o from_usize(Len(msg)) \o msg
    IN  [msg_id |-> keccak256(env.chain_id \o env.next_inbox_seq_num),
         env |-> [env EXCEPT !.l1_inbox = Append(@, l1_msg),
                             !.recorder = add_msg(@, l1_msg)]]

\* RuntimeEnvironment::insert_l1_message
insert_l1_message(env, msg_type, sender_addr, msg) ==
    LET l1_msg == from_usize(msg_type) \o env.current_block_num \o env.current_timestamp
                    \o sender_addr \o env.next_inbox_seq_num \o from_usize(Len(msg)) \o msg
    IN  [msg_id |-> keccak256(env.chain_id \o env.next_inbox_seq_num),
         env |-> [env EXCEPT !.next_inbox_seq_num = add(@, one),
                             !.l1_inbox = Append(@, l1_msg),
                             !.recorder = add_msg(@, l1_msg)]]

\* RuntimeEnvironment::new_with_blocknum_timestamp without charging policy,
\* sequencer and owner: the fields, then the chainInit message (type 4) whose
\* payload is what get_params_bytes gives; chain_id is kept as a Uint256
new_with_blocknum_timestamp(chain_address, blocknum, timestamp) ==
    LET params == from_usize(3 * 60 * 60 * 1000) \o from_usize(100000000 \div 1000)
                    \o Pad(<<2, 84, 11, 228, 0>>, WordBytes) \o from_usize(1000)
                    \o zero \o zero \o zero
    IN  insert_l1_message(
            [chain_id |-> Pad(SubSeq(chain_address, WordBytes - 5, WordBytes), WordBytes),
             l1_inbox |-> <<>>,
             current_block_num |-> blocknum,
             current_timestamp |-> timestamp,
             logs |-> <<>>,
             sends |-> <<>>,
             next_inbox_seq_num |-> zero,
             caller_seq_nums |-> <<>>,
             recorder |-> [inbox |-> <<>>, logs |-> <<>>, sends |-> <<>>],
             compressor |-> [address_map |-> <<>>, next_index |-> 1]],
            4, chain_address, params).env

\* a faulty get_and_incr_seq_num: the counter is written back as it was
get_and_incr_seq_num_stuck(env, addr) ==
    LET cur_seq_num == IF addr \in DOMAIN env.caller_seq_nums
                       THEN env.caller_seq_nums[addr] ELSE zero
    IN  [val |-> cur_seq_num,
         env |-> [env EXCEPT !.caller_seq_nums =
                    [a \in (DOMAIN @) \cup {addr} |-> IF a = addr THEN cur_seq_num ELSE @[a]]]]

\* RuntimeEnvironment::get_and_incr_seq_num
get_and_incr_seq_num(env, addr) ==
    LET cur_seq_num == IF addr \in DOMAIN env.caller_seq_nums
                       THEN env.caller_seq_nums[addr] ELSE zero
    IN  [val |-> cur_seq_num,
         env |-> [env EXCEPT !.caller_seq_nums =
                    [a \in (DOMAIN @) \cup {addr} |->
                        IF a = addr THEN add(cur_seq_num, one) ELSE @[a]]]]

\* a faulty push_log: the record reaches the sink and not the recorder
push_log_unrecorded(env, size, buf) ==
    [env EXCEPT !.logs = Append(@, SubSeq([i \in 1..SmallNat(size) |-> read_byte(buf, i - 1)],
                                          1, SmallNat(size)))]

\* RuntimeEnvironment::push_log, for a size that to_usize().unwrap() accepts
push_log(env, size, buf) ==
    LET res == SubSeq([i \in 1..SmallNat(size) |-> read_byte(buf, i - 1)], 1, SmallNat(size))
    IN  [env EXCEPT !.logs = Append(@, res), !.recorder.logs = Append(@, res)]

\* RuntimeEnvironment::push_send, for a size that to_usize().unwrap() accepts
push_send(env, size, buf) ==
    LET res == SubSeq([i \in 1..SmallNat(size) |-> read_byte(buf, i - 1)], 1, SmallNat(size))
    IN  [env EXCEPT !.sends = Append(@, res), !.recorder.sends = Append(@, res)]

\* a faulty get_all_sends: the records are looked for in the sends
get_all_sends_of_sends(env) ==
    LET read(log, at) == SubSeq([i \in 1..WordBytes |-> read_byte(log, at + i - 1)],
                               1, WordBytes)
        read_bytes(log, at, num) ==
            SubSeq([i \in 1..num |->
                      IF at + i <= Len(log) THEN log[at + i]
                      ELSE IF Len(log) > at THEN log[Len(log)] ELSE 0], 1, num)
        get_send_from_log(log) ==
            IF read(log, 0) = from_usize(2)
            THEN Some(read_bytes(log, 2 * WordBytes, SmallNat(read(log, WordBytes))))
            ELSE None
        RECURSIVE collect(_)
        collect(logs) ==
            IF logs = <<>> THEN <<>>
            ELSE (IF get_send_from_log(Head(logs)).some
                  THEN <<get_send_from_log(Head(logs)).val>> ELSE <<>>) \o collect(Tail(logs))
    IN  collect(env.sends)

\* RuntimeEnvironment::get_all_sends with get_send_from_log and read_bytes: a
\* log whose first word is 2 gives the bytes that follow its second word, as
\* many as the second word says; read_bytes past the end of the log repeats
\* the byte it read last (0 when it read none). Uint256::read takes the next
\* 32 bytes of the cursor, bytes past the end being 0.
get_all_sends(env) ==
    LET read(log, at) == SubSeq([i \in 1..WordBytes |-> read_byte(log, at + i - 1)],
                               1, WordBytes)
        read_bytes(log, at, num) ==
            SubSeq([i \in 1..num |->
                      IF at + i <= Len(log) THEN log[at + i]
                      ELSE IF Len(log) > at THEN log[Len(log)] ELSE 0], 1, num)
        get_send_from_log(log) ==
            IF read(log, 0) = from_usize(2)
            THEN Some(read_bytes(log, 2 * WordBytes, SmallNat(read(log, WordBytes))))
            ELSE None
        RECURSIVE collect(_)
        collect(logs) ==
            IF logs = <<>> THEN <<>>
            ELSE (IF get_send_from_log(Head(logs)).some
                  THEN <<get_send_from_log(Head(logs)).val>> ELSE <<>>) \o collect(Tail(logs))
    IN  collect(env.logs)

\* a faulty insert_full_inbox_contents: contents is put behind what waits
insert_full_inbox_contents_append(env, contents) ==
    [env EXCEPT !.l1_inbox = @ \o contents]

\* RuntimeEnvironment::insert_full_inbox_contents
insert_full_inbox_contents(env, contents) ==
    [env EXCEPT !.l1_inbox = contents]

\* a faulty compress_address: next_index stays where it is
compress_address_same_index(self, addr) ==
    LET rlp_encode(n) == IF n = 0 THEN <<128>>
                         ELSE IF n < 128 THEN <<n>>
                         ELSE IF n < 256 THEN <<129, n>>
                         ELSE <<130, n \div 256, n % 256>>
    IN  IF addr \in DOMAIN self.address_map
        THEN [val |-> self.address_map[addr], compressor |-> self]
        ELSE [val |-> <<148>> \o SubSeq(addr, 13, 32),
              compressor |->
                 [address_map |-> [a \in (DOMAIN self.address_map) \cup {addr} |->
                                     IF a = addr THEN rlp_encode(self.next_index)
                                     ELSE self.address_map[a]],
                  next_index |-> self.next_index]]

\* TxCompressor::compress_address, self the compressor (TxCompressor::new is
\* the empty address_map with next_index 1); rlp_encode is the RLP of a
\* number below 65536. The map is keyed by the 32 bytes of the address.
compress_address(self, addr) ==
    LET rlp_encode(n) == IF n = 0 THEN <<128>>
                         ELSE IF n < 128 THEN <<n>>
                         ELSE IF n < 256 THEN <<129, n>>
                         ELSE <<130, n \div 256, n % 256>>
    IN  IF addr \in DOMAIN self.address_map
        THEN [val |-> self.address_map[addr], compressor |-> self]
        ELSE [val |-> <<148>> \o SubSeq(addr, 13, 32),
              compressor |->
                 [address_map |-> [a \in (DOMAIN self.address_map) \cup {addr} |->
                                     IF a = addr THEN rlp_encode(self.next_index)
                                     ELSE self.address_map[a]],
                  next_index |-> 1 + self.next_index]]

(***************************************************************************)
(* The state: the Machine, its RuntimeEnvironment, and the driver.         *)
(***************************************************************************)
VARIABLES
    code,        \* Machine.code
    in_msgs,     \* the in_msgs argument of run_with_msgs
    static_val,  \* Machine.static_val
    stack,       \* Machine.stack
    aux_stack,   \* Machine.aux_stack
    state,       \* Machine.state
    register,    \* Machine.register
    l1_inbox,    \* RuntimeEnvironment.l1_inbox
    logs,        \* RuntimeEnvironment.logs
    panicked,    \* the host raised a panic: the process is gone
    phase,       \* "idle": no call in progress; "run": inside the loop of run
    caller,      \* who called run: "test_call" or "driver"
    stop_pc,     \* the stop_pc argument of the run in progress (or of the last one)
    last,        \* what the last step did
    result,      \* what run (src/src/run/mod.rs) returned, None before
    steps,       \* instructions executed so far
    inserted,    \* messages the driver inserted after construction
    resets,      \* resets so far
    logged,      \* the operands of the Log instructions executed so far
    rt_env,      \* a RuntimeEnvironment of src/src/run/runtime_env.rs
    rt_call,     \* the last operation on rt_env, its arguments and what it returned
    rt_sent,     \* the buffers insert_l1_message has built, in order
    rt_asked,    \* per address, the calls of get_and_incr_seq_num so far
    rt_ops,      \* operations on rt_env so far
    ln_progs,    \* the CompiledPrograms the compile subcommand has collected
    ln_out       \* the last call of the linker, its arguments and what it returned

env_vars == <<rt_env, rt_call, rt_sent, rt_asked, rt_ops, ln_progs, ln_out>>

vars == <<code, in_msgs, static_val, stack, aux_stack, state, register, l1_inbox, logs,
          panicked, phase, caller, stop_pc, last, result, steps, inserted, resets, logged,
          env_vars>>

\* the machine as the opcode definitions see it
Mach ==
    [stack |-> stack, aux_stack |-> aux_stack, state |-> state, register |-> register,
     static_val |-> static_val, l1_inbox |-> l1_inbox, logs |-> logs, panicked |-> FALSE]

\* the addresses that send messages and ask for sequence numbers
Addrs == {from_usize(7), from_usize(300)}

\* run_with_msgs on the input inp up to its call of run: the environment, then
\* Machine::new; and RuntimeEnvironment::new for the chain address 0x0401
MachineInit(inp) ==
    /\ code = inp.code
    /\ in_msgs = inp.in_msgs
    /\ l1_inbox = insert_messages(<<>>, inp.in_msgs)
    /\ rt_env = new_with_blocknum_timestamp(from_usize(1025), from_usize(100000),
                                            from_usize(10000000))
    /\ rt_call = [op |-> "new"]
    /\ rt_sent = rt_env.l1_inbox
    /\ rt_asked = [a \in Addrs |-> 0]
    /\ rt_ops = 0
    /\ ln_progs = <<>>
    /\ ln_out = [op |-> "none", errors |-> <<>>]
    /\ static_val = Value_none
    /\ stack = <<>>
    /\ aux_stack = <<>>
    /\ state = Stopped
    /\ register = Value_none
    /\ logs = <<>>
    /\ panicked = FALSE
    /\ phase = "idle"
    /\ caller = "none"
    /\ stop_pc = None
    /\ last = "none"
    /\ result = None
    /\ steps = 0
    /\ inserted = 0
    /\ resets = 0
    /\ logged = <<>>

Init == \E inp \in Inputs : MachineInit(inp)

\* the sentinel return address of test_call
test_call_stop_pc(cd) == Internal(Len(cd) + 1)

\* the stack test_call hands to run: the arguments, last to first, then the sentinel
test_call_stack(stk, args, cd) ==
    stk \o SubSeq([i \in 1..Len(args) |-> args[Len(args) + 1 - i]], 1, Len(args))
        \o <<Value_CodePoint(test_call_stop_pc(cd))>>

\* Machine::test_call up to its call of run
TestCall(func_addr, args) ==
    /\ phase = "idle"
    /\ ~panicked
    /\ result = None
    /\ stack' = test_call_stack(stack, args, code)
    /\ state' = Running(func_addr)
    /\ stop_pc' = Some(test_call_stop_pc(code))
    /\ phase' = "run"
    /\ caller' = "test_call"
    /\ last' = "call"
    /\ UNCHANGED <<env_vars, code, in_msgs, static_val, aux_stack, register, l1_inbox, logs, panicked,
                   result, steps, inserted, resets, logged>>

\* a faulty test_call: the Error arm of the match is taken for the Running arm
test_call_result_running(st, stk) ==
    IF st.kind = "Stopped" THEN Err(ExecutionError_new("execution stopped", st, None))
    ELSE Ok(stk)

\* the match that ends test_call
test_call_result(st, stk) ==
    IF st.kind = "Stopped" THEN Err(ExecutionError_new("execution stopped", st, None))
    ELSE IF st.kind = "Error" THEN Err(st.err)
    ELSE Ok(stk)

\* a faulty run: the stack test_call returned is handed on in place of the logs
run_result_stack(tc, lg, aux) ==
    IF tc.ok THEN Ok(tc.val)
    ELSE [ok |-> FALSE, err |-> tc.err,
          trace |-> SelectSeq(aux, LAMBDA v : v.kind = "CodePoint")]

\* run of src/src/run/mod.rs on what test_call returned: the logs, or the
\* error with the code points of the aux stack
run_result(tc, lg, aux) ==
    IF tc.ok THEN Ok(lg)
    ELSE [ok |-> FALSE, err |-> tc.err,
          trace |-> SelectSeq(aux, LAMBDA v : v.kind = "CodePoint")]

\* what the caller of Machine::run gets when run returns
Returned(st, stk, lg, aux) ==
    IF caller = "test_call" THEN Some(run_result(test_call_result(st, stk), lg, aux))
    ELSE result

\* run is at its stop_pc
AtStop == stop_pc.some /\ state.kind = "Running" /\ state.pc = stop_pc.val

\* the instruction under the pc, when there is one
Fetched ==
    IF state.kind = "Running" /\ state.pc.kind = "Internal" /\ state.pc.pc < Len(code)
    THEN Some(code[state.pc.pc + 1]) ELSE None

\* a faulty run: the error of run_one is dropped
run_state_keep(m, res) == m.state

\* what run makes of the state after run_one
run_state(m, res) == IF res.ok THEN m.state ELSE Error(res.err)

\* the effect of one iteration of the loop of run, r being what run_one gave;
\* run_one reporting that the machine is blocked makes run return
RunStepWith(r) ==
    LET blocked == r.res.ok /\ ~r.res.val
    IN  /\ panicked' = r.m.panicked
        /\ stack' = r.m.stack
        /\ aux_stack' = r.m.aux_stack
        /\ register' = r.m.register
        /\ l1_inbox' = r.m.l1_inbox
        /\ logs' = r.m.logs
        /\ state' = run_state(r.m, r.res)
        /\ last' = IF r.m.panicked THEN "panic"
                   ELSE IF ~r.res.ok THEN "err"
                   ELSE IF blocked THEN "blocked" ELSE "ok"
        /\ steps' = IF r.m.panicked \/ blocked THEN steps ELSE steps + 1
        /\ logged' = IF Fetched.some /\ Fetched.val.opcode = "Log" /\ r.res.ok /\ ~r.m.panicked
                     THEN Append(logged, IF Fetched.val.immediate.some
                                         THEN Fetched.val.immediate.val
                                         ELSE stack[Len(stack)])
                     ELSE logged
        /\ phase' = IF r.m.panicked THEN "panic" ELSE IF blocked THEN "idle" ELSE "run"
        /\ result' = IF ~r.m.panicked /\ blocked
                     THEN Returned(r.m.state, r.m.stack, r.m.logs, r.m.aux_stack)
                     ELSE result

\* one iteration of the loop of Machine::run that executes an instruction
RunStep ==
    /\ phase = "run"
    /\ ~panicked
    /\ state.kind = "Running"
    /\ ~AtStop
    /\ steps < MaxSteps
    /\ RunStepWith(run_one(code, Mach))
    /\ UNCHANGED <<env_vars, code, in_msgs, static_val, caller, stop_pc, inserted, resets>>

\* the loop of run ends: the machine is not running, or is at stop_pc
RunReturn ==
    /\ phase = "run"
    /\ ~panicked
    /\ state.kind # "Running" \/ AtStop
    /\ phase' = "idle"
    /\ last' = "return"
    /\ result' = Returned(state, stack, logs, aux_stack)
    /\ UNCHANGED <<env_vars, code, in_msgs, static_val, stack, aux_stack, state, register, l1_inbox, logs,
                   panicked, caller, stop_pc, steps, inserted, resets, logged>>

\* the driver inserts a message between two runs
InsertMessage(msg) ==
    /\ phase = "idle"
    /\ result # None
    /\ inserted < MaxInbox
    /\ l1_inbox' = insert_messages(l1_inbox, <<msg>>)
    /\ inserted' = inserted + 1
    /\ last' = "insert"
    /\ UNCHANGED <<env_vars, code, in_msgs, static_val, stack, aux_stack, state, register, logs, panicked,
                   phase, caller, stop_pc, result, steps, resets, logged>>

\* the driver invokes run again, with the stop_pc of the call
Resume ==
    /\ phase = "idle"
    /\ result # None
    /\ last # "resume"
    /\ phase' = "run"
    /\ caller' = "driver"
    /\ last' = "resume"
    /\ UNCHANGED <<env_vars, code, in_msgs, static_val, stack, aux_stack, state, register, l1_inbox, logs,
                   panicked, stop_pc, result, steps, inserted, resets, logged>>

\* Machine::reset
Reset ==
    /\ phase = "idle"
    /\ result # None
    /\ resets < MaxResets
    /\ stack' = <<>>
    /\ aux_stack' = <<>>
    /\ state' = Stopped
    /\ resets' = resets + 1
    /\ last' = "reset"
    /\ UNCHANGED <<env_vars, code, in_msgs, static_val, register, l1_inbox, logs, panicked, phase, caller,
                   stop_pc, result, steps, inserted, logged>>

Next ==
    \/ \E args \in ArgLists : TestCall(Internal(0), args)
    \/ RunStep
    \/ RunReturn
    \/ \E msg \in Messages : InsertMessage(msg)
    \/ Resume
    \/ Reset

Spec == Init /\ [][Next]_vars


(***************************************************************************)
(* A machine on a RuntimeEnvironment, and the replay of a recording.       *)
(***************************************************************************)
\* Value::Buffer: a byte blob
Value_Buffer(bs) == [kind |-> "Buffer", bytes |-> bs]

\* stand-ins for the program of arb_os/arbos.mexe: for gas = 0 one that logs
\* every message of the inbox as it is; for another gas one that logs a
\* transaction receipt of 18 words whose gas_used (word 11) and gas_so_far
\* (word 16) are gas, and then reads the inbox to its end
ArbosProg(gas) ==
    IF gas = 0
    THEN <<Op("Inbox"), from_opcode_imm("Tget", U(1)), Op("Log"),
           from_opcode_imm("Jump", Value_CodePoint(Internal(0)))>>
    ELSE <<Push(Value_Buffer(SubSeq([i \in 1..(18 * WordBytes) |->
                    IF i \in {11 * WordBytes, 16 * WordBytes} THEN gas ELSE 0],
                  1, 18 * WordBytes))),
           Op("Log"), Op("Inbox"), Op("Pop"),
           from_opcode_imm("Jump", Value_CodePoint(Internal(2)))>>

\* Machine::run(None) for at most n instructions: run_one as long as the
\* machine is running, an error ends in the Error state, a blocked machine returns
RECURSIVE Machine_run(_, _, _)
Machine_run(cd, m, n) ==
    IF n = 0 \/ m.state.kind # "Running" THEN m
    ELSE CHOOSE after \in
            {IF r.m.panicked \/ ~r.res.ok THEN [r.m EXCEPT !.state = run_state(r.m, r.res)]
             ELSE IF ~r.res.val THEN r.m
             ELSE Machine_run(cd, r.m, n - 1) : r \in {run_one(cd, m)}} : TRUE

\* load the program cd on the environment env, start_at_zero, run(None): the
\* Inbox opcode takes from l1_inbox, each Log is one push_log of the whole
\* buffer; ok when the machine did not end in an error
run_on_env(env, cd) ==
    CHOOSE out \in
      {[ok |-> m.state.kind # "Error",
        env |-> [env EXCEPT !.l1_inbox = SubSeq([i \in 1..Len(m.l1_inbox) |->
                                                   m.l1_inbox[i].bytes], 1, Len(m.l1_inbox)),
                            !.logs = @ \o SubSeq([i \in 1..Len(m.logs) |-> m.logs[i].bytes],
                                                 1, Len(m.logs)),
                            !.recorder.logs = @ \o SubSeq([i \in 1..Len(m.logs) |->
                                                             m.logs[i].bytes], 1, Len(m.logs))]] :
       m \in {Machine_run(cd,
                 [stack |-> <<>>, aux_stack |-> <<>>, state |-> Running(Internal(0)),
                  register |-> Value_none, static_val |-> Value_none,
                  l1_inbox |-> SubSeq([i \in 1..Len(env.l1_inbox) |->
                                         Value_Buffer(env.l1_inbox[i])], 1, Len(env.l1_inbox)),
                  logs |-> <<>>, panicked |-> FALSE],
                 4 * Len(env.l1_inbox) + 4)}} : TRUE

\* strip_var_from_log: the function returns its argument
strip_var_from_log(log) == log

\* RtEnvRecorder::replay_and_compare, arbos the program of arb_os/arbos.mexe:
\* a fresh environment whose inbox is replaced by the recorded one
\* (insert_full_inbox_contents), the run, then the comparison
replay_and_compare(recorder, arbos, require_same_gas) ==
    LET Strip(ls) == SubSeq([i \in 1..Len(ls) |-> strip_var_from_log(ls[i])], 1, Len(ls))
    IN  \E seen \in {run_on_env(insert_full_inbox_contents(
                                     new_with_blocknum_timestamp(from_usize(1111),
                                         from_usize(100000), from_usize(10000000)),
                                     recorder.inbox), arbos).env.recorder} :
          LET logs_expected == IF require_same_gas THEN recorder.logs ELSE Strip(recorder.logs)
              logs_seen == IF require_same_gas THEN seen.logs ELSE Strip(seen.logs)
          IN  IF logs_expected # logs_seen THEN FALSE
              ELSE IF recorder.sends # seen.sends THEN FALSE
              ELSE TRUE

(***************************************************************************)
(* Byte stacks: a byte sequence as the pair of its length and a chain of   *)
(* cells (word, rest), one cell for every 32 bytes, the last bytes on top. *)
(***************************************************************************)
\* a faulty bytestack_from_bytes: a sequence of exactly 32 bytes is split too
bytestack_from_bytes_ge(b) ==
    LET RECURSIVE bytestack_build_uint(_, _, _)
        bytestack_build_uint(bb, j, ui) ==
            IF j > 32 \/ Len(ui) = 0 THEN Value_Int(ui)
            ELSE bytestack_build_uint(bb, j + 1,
                     IF j <= Len(bb) THEN Tail(ui) \o <<bb[j]>> ELSE Tail(ui) \o <<0>>)
        RECURSIVE bytestack_from_bytes_2(_, _)
        bytestack_from_bytes_2(bb, so_far) ==
            IF Len(bb) >= 32
            THEN bytestack_from_bytes_2(SubSeq(bb, 33, Len(bb)),
                     Value_Tuple(<<bytestack_build_uint(SubSeq(bb, 1, 32), 1, zero), so_far>>))
            ELSE Value_Tuple(<<bytestack_build_uint(bb, 1, zero), so_far>>)
    IN  Value_Tuple(<<Value_Int(from_usize(Len(b))), bytestack_from_bytes_2(b, Value_none)>>)

\* bytestack_from_bytes, with bytestack_from_bytes_2 (the chain, 32 bytes a cell
\* while more than 32 are left) and bytestack_build_uint (the bytes of a cell
\* from the top of the word, j = 0..31 of the code being 1..32 here; on the
\* bytes of a word, the highest first, ui.mul(256) drops the first byte and
\* appends a zero, and adding a byte to it sets that last byte)
bytestack_from_bytes(b) ==
    LET RECURSIVE bytestack_build_uint(_, _, _)
        bytestack_build_uint(bb, j, ui) ==
            IF j > 32 \/ Len(ui) = 0 THEN Value_Int(ui)
            ELSE bytestack_build_uint(bb, j + 1,
                     IF j <= Len(bb) THEN Tail(ui) \o <<bb[j]>> ELSE Tail(ui) \o <<0>>)
        RECURSIVE bytestack_from_bytes_2(_, _)
        bytestack_from_bytes_2(bb, so_far) ==
            IF Len(bb) > 32
            THEN bytestack_from_bytes_2(SubSeq(bb, 33, Len(bb)),
                     Value_Tuple(<<bytestack_build_uint(SubSeq(bb, 1, 32), 1, zero), so_far>>))
            ELSE Value_Tuple(<<bytestack_build_uint(bb, 1, zero), so_far>>)
    IN  Value_Tuple(<<Value_Int(from_usize(Len(b))), bytestack_from_bytes_2(b, Value_none)>>)

\* _bytes_from_bytestack, with _bytes_from_bytestack_2; Shift and Low are its
\* loops (int_val divided by 256 n times; the n low bytes of int_val, the
\* lowest last). On the bytes of a word, the highest first, int_val.div(256)
\* drops the last byte and int_val.modulo(256) is the last byte. A cell
\* that is not a pair fails the assert_eq.
_bytes_from_bytestack(bs) ==
    LET div_256(int_val) == <<0>> \o SubSeq(int_val, 1, WordBytes - 1)
        modulo_256(int_val) == int_val[WordBytes]
        RECURSIVE Shift(_, _)
        Shift(int_val, n) ==
            IF n = 0 \/ Len(int_val) = 0 THEN int_val ELSE Shift(div_256(int_val), n - 1)
        RECURSIVE Low(_, _, _)
        Low(int_val, n, this_arr) ==
            IF n = 0 \/ Len(int_val) + Len(this_arr) = 0 THEN this_arr
            ELSE Low(div_256(int_val), n - 1, <<modulo_256(int_val)>> \o this_arr)
        RECURSIVE _bytes_from_bytestack_2(_, _)
        _bytes_from_bytestack_2(cell, nbytes) ==
            IF nbytes = 0 THEN Some(<<>>)
            ELSE IF cell.kind # "Tuple" THEN None
            ELSE IF Len(cell.items) # 2 THEN [some |-> FALSE, panicked |-> TRUE]
            ELSE IF cell.items[1].kind # "Int" THEN None
            ELSE IF nbytes % 32 = 0
            THEN CHOOSE out \in
                    {IF ~sub_arr.some THEN sub_arr
                     ELSE Some(sub_arr.val \o Low(cell.items[1].uint, 32, <<>>)) :
                        sub_arr \in {_bytes_from_bytestack_2(cell.items[2], nbytes - 32)}} : TRUE
            ELSE CHOOSE out \in
                    {IF ~sub_arr.some THEN sub_arr
                     ELSE Some(sub_arr.val \o Low(Shift(cell.items[1].uint, 32 - (nbytes % 32)),
                                                  nbytes % 32, <<>>)) :
                        sub_arr \in {_bytes_from_bytestack_2(cell.items[2],
                                                            32 * (nbytes \div 32))}} : TRUE
    IN  IF bs.kind = "Tuple" /\ bs.items[1].kind = "Int" /\ to_usize(bs.items[1].uint).some
        THEN _bytes_from_bytestack_2(bs.items[2], SmallNat(bs.items[1].uint))
        ELSE None

\* hash_bytestack: the length, then every word of the chain from the top cell
\* down, folded with avm_hash2; None for a value that is not a byte stack
hash_bytestack(bs) ==
    LET RECURSIVE Fold(_, _)
        Fold(acc, pair) ==
            IF pair = Value_none THEN Some(acc)
            ELSE IF pair.kind # "Tuple" THEN None
            ELSE IF pair.items[1].kind # "Int" THEN None
            ELSE Fold(keccak256(acc \o pair.items[1].uint), pair.items[2])
    IN  IF bs.kind = "Tuple" /\ bs.items[1].kind = "Int"
        THEN Fold(bs.items[1].uint, bs.items[2])
        ELSE None

\* a faulty insert_l2_message: the id is always the one of the L1 message
insert_l2_message_default(env, sender_addr, msg, is_buddy_deploy) ==
    [panicked |-> msg = <<>>,
     msg_id |-> insert_l1_message(env, IF is_buddy_deploy THEN 5 ELSE 3, sender_addr, msg).msg_id,
     env |-> insert_l1_message(env, IF is_buddy_deploy THEN 5 ELSE 3, sender_addr, msg).env]

\* RuntimeEnvironment::insert_l2_message; msg[0] of an empty msg is an index
\* out of bounds, which stops the host after the L1 message went in
insert_l2_message(env, sender_addr, msg, is_buddy_deploy) ==
    [panicked |-> msg = <<>>,
     msg_id |-> IF msg # <<>> /\ msg[1] = 0
                THEN keccak256(sender_addr \o
                         keccak256(env.chain_id \o hash_bytestack(bytestack_from_bytes(msg)).val))
                ELSE insert_l1_message(env, IF is_buddy_deploy THEN 5 ELSE 3,
                                       sender_addr, msg).msg_id,
     env |-> insert_l1_message(env, IF is_buddy_deploy THEN 5 ELSE 3, sender_addr, msg).env]

(***************************************************************************)
(* The linker (src/src/link/mod.rs, src/src/compile.rs).  A label is       *)
(* [kind, id] with kind "Func" or "External"; Value::Label(l) is           *)
(* [kind |-> "Label", label |-> l]; the instruction Opcode::Label(l) is    *)
(* [opcode |-> "Label", label |-> l, immediate |-> None], and              *)
(* GetGlobalVar(n), SetGlobalVar(n) carry n as idx.  A Type is a tuple,    *)
(* Type::Func(is_impure, arg_types, ret_type) the tuple                    *)
(* <<"Func", is_impure, arg_types, ret_type>>.                             *)
(***************************************************************************)
\* a faulty relocate: the code is left as it is, the imports come out reversed
relocate_reversed(prog, int_offset, ext_offset, func_offset, globals_offset) ==
    [prog |-> [prog EXCEPT !.imported_funcs =
                  SubSeq([k \in 1..Len(@) |->
                            [@[Len(@) + 1 - k] EXCEPT !.slot_num = @ + ext_offset]], 1, Len(@))],
     max_func_offset |-> func_offset]

\* CompiledProgram::relocate as link calls it, the globals moved by
\* globals_offset. Label, Value and Insn are Label::relocate, Value::relocate
\* and Instruction::relocate of crate::mavm: a Func label moves by
\* func_offset and reports the first id above the one it reached (link hands
\* what is reported to the next program as its func_offset), an External
\* label and an External code point move by ext_offset, an Internal code
\* point by int_offset, and what holds no Func label reports func_offset.
relocate(prog, int_offset, ext_offset, func_offset, globals_offset) ==
    LET Label(l) ==
            IF l.kind = "Func"
            THEN [val |-> [l EXCEPT !.id = @ + func_offset], max |-> l.id + func_offset + 1]
            ELSE [val |-> [l EXCEPT !.id = @ + ext_offset], max |-> func_offset]
        Value(v) ==
            IF v.kind = "Label"
            THEN [val |-> [v EXCEPT !.label = Label(@).val], max |-> Label(v.label).max]
            ELSE IF v.kind = "CodePoint"
            THEN [val |-> Value_CodePoint([v.cp EXCEPT !.pc = @ + IF v.cp.kind = "Internal"
                                                                  THEN int_offset
                                                                  ELSE ext_offset]),
                  max |-> func_offset]
            ELSE [val |-> v, max |-> func_offset]
        Opcode(insn) ==
            IF insn.opcode = "Label"
            THEN [val |-> [insn EXCEPT !.label = Label(@).val], max |-> Label(insn.label).max]
            ELSE IF insn.opcode \in {"GetGlobalVar", "SetGlobalVar"}
            THEN [val |-> [insn EXCEPT !.idx = @ + globals_offset], max |-> func_offset]
            ELSE [val |-> insn, max |-> func_offset]
        Insn(insn) ==
            IF insn.immediate.some
            THEN [val |-> [Opcode(insn).val EXCEPT
                             !.immediate = Some(Value(insn.immediate.val).val)],
                  max |-> IF Opcode(insn).max < Value(insn.immediate.val).max
                          THEN Value(insn.immediate.val).max ELSE Opcode(insn).max]
            ELSE Opcode(insn)
        reached == {0} \cup {Insn(prog.code[k]).max : k \in 1..Len(prog.code)}
                       \cup {Label(prog.exported_funcs[k].label).max :
                                 k \in 1..Len(prog.exported_funcs)}
    IN  [prog |->
           [code |-> SubSeq([k \in 1..Len(prog.code) |-> Insn(prog.code[k]).val],
                            1, Len(prog.code)),
            exported_funcs |->
                SubSeq([k \in 1..Len(prog.exported_funcs) |->
                          [prog.exported_funcs[k] EXCEPT !.label = Label(@).val]],
                       1, Len(prog.exported_funcs)),
            imported_funcs |->
                SubSeq([k \in 1..Len(prog.imported_funcs) |->
                          [prog.imported_funcs[k] EXCEPT !.slot_num = @ + ext_offset]],
                       1, Len(prog.imported_funcs)),
            global_num_limit |-> prog.global_num_limit + globals_offset],
         max_func_offset |-> CHOOSE m \in reached : \A x \in reached : x <= m]

\* add_auto_link_progs: the inputs, then builtin/array.mao and builtin/kvs.mao
\* compiled; the two are stand-ins, the second importing from the first
add_auto_link_progs(progs_in) ==
    LET Func(id) == [kind |-> "Func", id |-> id]
        array == [code |-> <<[opcode |-> "Label", label |-> Func(0), immediate |-> None],
                             from_opcode("Noop")>>,
                  exported_funcs |-> <<[name |-> "builtin_arrayNew", label |-> Func(0),
                                        tipe |-> <<"Func", FALSE, <<"uint">>, "any">>]>>,
                  imported_funcs |-> <<>>,
                  global_num_limit |-> 0]
        kvs == [code |-> <<[opcode |-> "Label", label |-> Func(0), immediate |-> None],
                           from_opcode_imm("Jump", [kind |-> "Label",
                                                    label |-> [kind |-> "External", id |-> 0]])>>,
                exported_funcs |-> <<[name |-> "builtin_kvsNew", label |-> Func(0),
                                      tipe |-> <<"Func", FALSE, <<>>, "any">>]>>,
                imported_funcs |-> <<[name |-> "builtin_arrayNew", slot_num |-> 0,
                                      arg_types |-> <<"uint">>, ret_type |-> "any",
                                      is_impure |-> FALSE]>>,
                global_num_limit |-> 0]
    IN  [ok |-> TRUE, val |-> progs_in \o <<array, kvs>>]

\* a faulty link: the first export of a name stays in exports_map
link_first_export(progs_in) ==
    LET progs == add_auto_link_progs(progs_in).val
        RECURSIVE Sum(_, _, _)
        Sum(i, insns_so_far, imports_so_far) ==
            IF i = 0 THEN [int |-> insns_so_far, ext |-> imports_so_far]
            ELSE Sum(i - 1, insns_so_far + Len(progs[i].code),
                     imports_so_far + Len(progs[i].imported_funcs))
        RECURSIVE Located(_, _, _, _)
        Located(i, func_offset, global_num_limit, relocated_progs) ==
            IF i > Len(progs)
            THEN [progs |-> relocated_progs, global_num_limit |-> global_num_limit]
            ELSE CHOOSE out \in
                    {Located(i + 1, r.max_func_offset, r.prog.global_num_limit,
                             Append(relocated_progs, r.prog)) :
                        r \in {relocate(progs[i], Sum(i - 1, 1, 0).int, Sum(i - 1, 1, 0).ext,
                                        func_offset, global_num_limit)}} : TRUE
        RECURSIVE Uninit(_)
        Uninit(n) ==
            IF n <= 8 THEN Value_Tuple(SubSeq([k \in 1..n |-> Value_none], 1, n))
            ELSE LET chunk == IF n <= 64 THEN 8 ELSE 64
                     cells == (n + chunk - 1) \div chunk
                 IN  Value_Tuple(SubSeq([k \in 1..cells |->
                                           Uninit(IF k * chunk <= n THEN chunk
                                                  ELSE n - (k - 1) * chunk)], 1, cells))
        RECURSIVE Merged(_, _)
        Merged(rel, field) ==
            IF rel = <<>> THEN <<>> ELSE Head(rel)[field] \o Merged(Tail(rel), field)
    IN  IF ~add_auto_link_progs(progs_in).ok THEN add_auto_link_progs(progs_in)
        ELSE CHOOSE out \in
          {LET linked_exports == Merged(loc.progs, "exported_funcs")
               linked_imports == Merged(loc.progs, "imported_funcs")
               Last(S) == CHOOSE k \in S : \A x \in S : x <= k
               First(S) == CHOOSE k \in S : \A x \in S : k <= x
               exports_map(name) ==
                   linked_exports[First({k \in 1..Len(linked_exports) :
                                            linked_exports[k].name = name})]
               Named(name) == \E k \in 1..Len(linked_exports) : linked_exports[k].name = name
               Keyed(slot) == {k \in 1..Len(linked_imports) :
                                 /\ linked_imports[k].slot_num = slot
                                 /\ Named(linked_imports[k].name)}
               Xlate(insn) ==
                   IF /\ insn.immediate.some
                      /\ insn.immediate.val.kind = "Label"
                      /\ insn.immediate.val.label.kind = "External"
                      /\ Keyed(insn.immediate.val.label.id) # {}
                   THEN [insn EXCEPT !.immediate.val.label =
                            exports_map(linked_imports[Last(Keyed(@.id))].name).label]
                   ELSE insn
               linked_code == <<from_opcode_imm("Rset", Uninit(loc.global_num_limit))>>
                                \o Merged(loc.progs, "code")
           IN  [ok |-> TRUE,
                val |-> [code |-> SubSeq([k \in 1..Len(linked_code) |-> Xlate(linked_code[k])],
                                         1, Len(linked_code)),
                         exported_funcs |-> linked_exports,
                         imported_funcs |-> linked_imports,
                         global_num_limit |-> loc.global_num_limit],
                warnings |-> Cardinality(
                    {k \in 1..Len(linked_imports) :
                       /\ Named(linked_imports[k].name)
                       /\ exports_map(linked_imports[k].name).tipe #
                            <<"Func", linked_imports[k].is_impure, linked_imports[k].arg_types,
                              linked_imports[k].ret_type>>})] :
             loc \in {Located(1, 0, 0, <<>>)}} : TRUE


\* link. Located is the loop that relocates the programs one after the other,
\* Uninit is make_uninitialized_tuple of xformcode (a tree of arity 8 with n
\* leaves Value::none), exports_map and label_xlate_map are the two HashMaps,
\* in which a later insert of a key replaces the earlier one, and Xlate is
\* Instruction::xlate_labels, which rewrites a label held by an immediate.
\* warnings counts the imports whose type is not the type of the export.
link(progs_in) ==
    LET progs == add_auto_link_progs(progs_in).val
        RECURSIVE Sum(_, _, _)
        Sum(i, insns_so_far, imports_so_far) ==
            IF i = 0 THEN [int |-> insns_so_far, ext |-> imports_so_far]
            ELSE Sum(i - 1, insns_so_far + Len(progs[i].code),
                     imports_so_far + Len(progs[i].imported_funcs))
        RECURSIVE Located(_, _, _, _)
        Located(i, func_offset, global_num_limit, relocated_progs) ==
            IF i > Len(progs)
            THEN [progs |-> relocated_progs, global_num_limit |-> global_num_limit]
            ELSE CHOOSE out \in
                    {Located(i + 1, r.max_func_offset, r.prog.global_num_limit,
                             Append(relocated_progs, r.prog)) :
                        r \in {relocate(progs[i], Sum(i - 1, 1, 0).int, Sum(i - 1, 1, 0).ext,
                                        func_offset, global_num_limit)}} : TRUE
        RECURSIVE Uninit(_)
        Uninit(n) ==
            IF n <= 8 THEN Value_Tuple(SubSeq([k \in 1..n |-> Value_none], 1, n))
            ELSE LET chunk == IF n <= 64 THEN 8 ELSE 64
                     cells == (n + chunk - 1) \div chunk
                 IN  Value_Tuple(SubSeq([k \in 1..cells |->
                                           Uninit(IF k * chunk <= n THEN chunk
                                                  ELSE n - (k - 1) * chunk)], 1, cells))
        RECURSIVE Merged(_, _)
        Merged(rel, field) ==
            IF rel = <<>> THEN <<>> ELSE Head(rel)[field] \o Merged(Tail(rel), field)
    IN  IF ~add_auto_link_progs(progs_in).ok THEN add_auto_link_progs(progs_in)
        ELSE CHOOSE out \in
          {LET linked_exports == Merged(loc.progs, "exported_funcs")
               linked_imports == Merged(loc.progs, "imported_funcs")
               Last(S) == CHOOSE k \in S : \A x \in S : x <= k
               exports_map(name) ==
                   linked_exports[Last({k \in 1..Len(linked_exports) :
                                           linked_exports[k].name = name})]
               Named(name) == \E k \in 1..Len(linked_exports) : linked_exports[k].name = name
               Keyed(slot) == {k \in 1..Len(linked_imports) :
                                 /\ linked_imports[k].slot_num = slot
                                 /\ Named(linked_imports[k].name)}
               Xlate(insn) ==
                   IF /\ insn.immediate.some
                      /\ insn.immediate.val.kind = "Label"
                      /\ insn.immediate.val.label.kind = "External"
                      /\ Keyed(insn.immediate.val.label.id) # {}
                   THEN [insn EXCEPT !.immediate.val.label =
                            exports_map(linked_imports[Last(Keyed(@.id))].name).label]
                   ELSE insn
               linked_code == <<from_opcode_imm("Rset", Uninit(loc.global_num_limit))>>
                                \o Merged(loc.progs, "code")
           IN  [ok |-> TRUE,
                val |-> [code |-> SubSeq([k \in 1..Len(linked_code) |-> Xlate(linked_code[k])],
                                         1, Len(linked_code)),
                         exported_funcs |-> linked_exports,
                         imported_funcs |-> linked_imports,
                         global_num_limit |-> loc.global_num_limit],
                warnings |-> Cardinality(
                    {k \in 1..Len(linked_imports) :
                       /\ Named(linked_imports[k].name)
                       /\ exports_map(linked_imports[k].name).tipe #
                            <<"Func", linked_imports[k].is_impure, linked_imports[k].arg_types,
                              linked_imports[k].ret_type>>})] :
             loc \in {Located(1, 0, 0, <<>>)}} : TRUE

\* a faulty postlink_compile: the peephole pass runs when the labels are stripped
postlink_compile_peephole_last(program) ==
    LET TUPLE_SIZE == 8
        IsRef(insn) == insn.immediate.some /\ insn.immediate.val.kind = "Label"
        IsPush(insn) == insn.opcode = "Noop" /\ insn.immediate.some
        Index(seq, x) == CHOOSE k \in 1..Len(seq) : seq[k] = x
        RECURSIVE fix_nonforward_labels(_, _, _, _)
        fix_nonforward_labels(k, seen, jump_table, code_2) ==
            IF k > Len(program.code) THEN [code |-> code_2, jump_table |-> jump_table]
            ELSE IF program.code[k].opcode = "Label"
            THEN fix_nonforward_labels(k + 1, seen \cup {program.code[k].label}, jump_table,
                                       Append(code_2, program.code[k]))
            ELSE IF IsRef(program.code[k]) /\ program.code[k].immediate.val.label \in seen
            THEN CHOOSE out \in
                    {fix_nonforward_labels(k + 1, seen, jt,
                         code_2 \o <<from_opcode("PushStatic"),
                                     from_opcode_imm("Tget",
                                         Value_Int(from_usize(
                                             Index(jt, program.code[k].immediate.val.label) - 1))),
                                     from_opcode(program.code[k].opcode)>>) :
                       jt \in {IF \E n \in 1..Len(jump_table) :
                                    jump_table[n] = program.code[k].immediate.val.label
                               THEN jump_table
                               ELSE Append(jump_table, program.code[k].immediate.val.label)}} :
                    TRUE
            ELSE fix_nonforward_labels(k + 1, seen, jump_table, Append(code_2, program.code[k]))
        RECURSIVE PathIn(_, _)
        PathIn(n, i) ==
            IF n <= TUPLE_SIZE THEN <<i>>
            ELSE LET chunk == IF n <= TUPLE_SIZE * TUPLE_SIZE THEN TUPLE_SIZE
                              ELSE TUPLE_SIZE * TUPLE_SIZE
                 IN  <<i \div chunk>>
                       \o PathIn(IF ((i \div chunk) + 1) * chunk <= n THEN chunk
                                 ELSE n - (i \div chunk) * chunk, i % chunk)
        Path(i) == PathIn(program.global_num_limit, i)
        Step(op, path) == SubSeq([n \in 1..Len(path) |->
                                    from_opcode_imm(op, Value_Int(from_usize(path[n])))],
                                 1, Len(path))
        RECURSIVE fix_tuple_size(_)
        fix_tuple_size(c) ==
            IF c = <<>> THEN <<>>
            ELSE (IF Head(c).opcode = "GetGlobalVar"
                  THEN <<from_opcode("Rget")>> \o Step("Tget", Path(Head(c).idx))
                  ELSE IF Head(c).opcode = "SetGlobalVar"
                  THEN <<from_opcode("Rget")>> \o Step("Tset", Path(Head(c).idx))
                         \o <<from_opcode("Rset")>>
                  ELSE <<Head(c)>>) \o fix_tuple_size(Tail(c))
        RECURSIVE peephole(_)
        peephole(c) ==
            IF c = <<>> THEN <<>>
            ELSE IF c[1] = from_opcode("Noop") THEN peephole(Tail(c))
            ELSE IF Len(c) >= 2 /\ IsPush(c[1]) /\ c[2] = from_opcode("Pop")
            THEN peephole(SubSeq(c, 3, Len(c)))
            ELSE IF Len(c) >= 3 /\ IsPush(c[1]) /\ IsPush(c[2]) /\ c[3] = from_opcode("Swap1")
            THEN <<c[2], c[1]>> \o peephole(SubSeq(c, 4, Len(c)))
            ELSE <<c[1]>> \o peephole(Tail(c))
        Site(c, l) == {k \in 1..Len(c) : c[k].opcode = "Label" /\ c[k].label = l}
        Pc(c, l) == Internal((CHOOSE k \in Site(c, l) : \A n \in Site(c, l) : n <= k) - 1)
        strip_labels(c, jump_table) ==
            IF \/ \E k \in 1..Len(c) : IsRef(c[k]) /\ Site(c, c[k].immediate.val.label) = {}
               \/ \E k \in 1..Len(jump_table) : Site(c, jump_table[k]) = {}
               \/ \E k \in 1..Len(program.exported_funcs) :
                     Site(c, program.exported_funcs[k].label) = {}
            THEN [ok |-> FALSE]
            ELSE [ok |-> TRUE,
                  code |-> SubSeq([k \in 1..Len(c) |->
                              IF c[k].opcode = "Label" THEN from_opcode("Noop")
                              ELSE IF IsRef(c[k])
                              THEN [c[k] EXCEPT !.immediate.val =
                                       Value_CodePoint(Pc(c, @.label))]
                              ELSE c[k]], 1, Len(c)),
                  jump_table |-> SubSeq([k \in 1..Len(jump_table) |->
                                           Value_CodePoint(Pc(c, jump_table[k]))],
                                        1, Len(jump_table)),
                  exported_funcs |->
                      SubSeq([k \in 1..Len(program.exported_funcs) |->
                                [name |-> program.exported_funcs[k].name,
                                 codept |-> Pc(c, program.exported_funcs[k].label),
                                 tipe |-> program.exported_funcs[k].tipe]],
                             1, Len(program.exported_funcs))]
    IN  CHOOSE out \in
          {IF ~stripped.ok
           THEN [ok |-> FALSE, err |-> "reference to non-existent function"]
           ELSE [ok |-> TRUE,
                 val |-> [code |-> peephole(stripped.code),
                          static_val |-> Value_Tuple(stripped.jump_table),
                          exported_funcs |-> stripped.exported_funcs,
                          imported_funcs |-> program.imported_funcs]] :
             stripped \in
               {strip_labels(fix_tuple_size(fixed.code), fixed.jump_table) :
                  fixed \in {fix_nonforward_labels(1, {}, <<>>, <<>>)}}} : TRUE

\* a faulty postlink_compile: every global is reached by as many steps as the
\* deepest leaf of the tree
postlink_compile_full_depth(program) ==
    LET TUPLE_SIZE == 8
        IsRef(insn) == insn.immediate.some /\ insn.immediate.val.kind = "Label"
        IsPush(insn) == insn.opcode = "Noop" /\ insn.immediate.some
        Index(seq, x) == CHOOSE k \in 1..Len(seq) : seq[k] = x
        RECURSIVE fix_nonforward_labels(_, _, _, _)
        fix_nonforward_labels(k, seen, jump_table, code_2) ==
            IF k > Len(program.code) THEN [code |-> code_2, jump_table |-> jump_table]
            ELSE IF program.code[k].opcode = "Label"
            THEN fix_nonforward_labels(k + 1, seen \cup {program.code[k].label}, jump_table,
                                       Append(code_2, program.code[k]))
            ELSE IF IsRef(program.code[k]) /\ program.code[k].immediate.val.label \in seen
            THEN CHOOSE out \in
                    {fix_nonforward_labels(k + 1, seen, jt,
                         code_2 \o <<from_opcode("PushStatic"),
                                     from_opcode_imm("Tget",
                                         Value_Int(from_usize(
                                             Index(jt, program.code[k].immediate.val.label) - 1))),
                                     from_opcode(program.code[k].opcode)>>) :
                       jt \in {IF \E n \in 1..Len(jump_table) :
                                    jump_table[n] = program.code[k].immediate.val.label
                               THEN jump_table
                               ELSE Append(jump_table, program.code[k].immediate.val.label)}} :
                    TRUE
            ELSE fix_nonforward_labels(k + 1, seen, jump_table, Append(code_2, program.code[k]))
        Path(i) == IF program.global_num_limit <= TUPLE_SIZE THEN <<i>>
                   ELSE IF program.global_num_limit <= TUPLE_SIZE * TUPLE_SIZE
                   THEN <<i \div TUPLE_SIZE, i % TUPLE_SIZE>>
                   ELSE <<i \div (TUPLE_SIZE * TUPLE_SIZE),
                          (i % (TUPLE_SIZE * TUPLE_SIZE)) \div TUPLE_SIZE, i % TUPLE_SIZE>>
        Step(op, path) == SubSeq([n \in 1..Len(path) |->
                                    from_opcode_imm(op, Value_Int(from_usize(path[n])))],
                                 1, Len(path))
        RECURSIVE fix_tuple_size(_)
        fix_tuple_size(c) ==
            IF c = <<>> THEN <<>>
            ELSE (IF Head(c).opcode = "GetGlobalVar"
                  THEN <<from_opcode("Rget")>> \o Step("Tget", Path(Head(c).idx))
                  ELSE IF Head(c).opcode = "SetGlobalVar"
                  THEN <<from_opcode("Rget")>> \o Step("Tset", Path(Head(c).idx))
                         \o <<from_opcode("Rset")>>
                  ELSE <<Head(c)>>) \o fix_tuple_size(Tail(c))
        RECURSIVE peephole(_)
        peephole(c) ==
            IF c = <<>> THEN <<>>
            ELSE IF c[1] = from_opcode("Noop") THEN peephole(Tail(c))
            ELSE IF Len(c) >= 2 /\ IsPush(c[1]) /\ c[2] = from_opcode("Pop")
            THEN peephole(SubSeq(c, 3, Len(c)))
            ELSE IF Len(c) >= 3 /\ IsPush(c[1]) /\ IsPush(c[2]) /\ c[3] = from_opcode("Swap1")
            THEN <<c[2], c[1]>> \o peephole(SubSeq(c, 4, Len(c)))
            ELSE <<c[1]>> \o peephole(Tail(c))
        Site(c, l) == {k \in 1..Len(c) : c[k].opcode = "Label" /\ c[k].label = l}
        Pc(c, l) == Internal((CHOOSE k \in Site(c, l) : \A n \in Site(c, l) : n <= k) - 1)
        strip_labels(c, jump_table) ==
            IF \/ \E k \in 1..Len(c) : IsRef(c[k]) /\ Site(c, c[k].immediate.val.label) = {}
               \/ \E k \in 1..Len(jump_table) : Site(c, jump_table[k]) = {}
               \/ \E k \in 1..Len(program.exported_funcs) :
                     Site(c, program.exported_funcs[k].label) = {}
            THEN [ok |-> FALSE]
            ELSE [ok |-> TRUE,
                  code |-> SubSeq([k \in 1..Len(c) |->
                              IF c[k].opcode = "Label" THEN from_opcode("Noop")
                              ELSE IF IsRef(c[k])
                              THEN [c[k] EXCEPT !.immediate.val =
                                       Value_CodePoint(Pc(c, @.label))]
                              ELSE c[k]], 1, Len(c)),
                  jump_table |-> SubSeq([k \in 1..Len(jump_table) |->
                                           Value_CodePoint(Pc(c, jump_table[k]))],
                                        1, Len(jump_table)),
                  exported_funcs |->
                      SubSeq([k \in 1..Len(program.exported_funcs) |->
                                [name |-> program.exported_funcs[k].name,
                                 codept |-> Pc(c, program.exported_funcs[k].label),
                                 tipe |-> program.exported_funcs[k].tipe]],
                             1, Len(program.exported_funcs))]
    IN  CHOOSE out \in
          {IF ~stripped.ok
           THEN [ok |-> FALSE, err |-> "reference to non-existent function"]
           ELSE [ok |-> TRUE,
                 val |-> [code |-> stripped.code,
                          static_val |-> Value_Tuple(stripped.jump_table),
                          exported_funcs |-> stripped.exported_funcs,
                          imported_funcs |-> program.imported_funcs]] :
             stripped \in
               {strip_labels(peephole(fix_tuple_size(fixed.code)), fixed.jump_table) :
                  fixed \in {fix_nonforward_labels(1, {}, <<>>, <<>>)}}} : TRUE

\* postlink_compile without the debug output. The four passes are those of
\* striplabels, xformcode and optimize: fix_nonforward_labels scans the code
\* once and has every reference to a label it has passed fetched from the
\* jump table (PushStatic, Tget of the index); fix_tuple_size makes a global
\* an Rget and a Tget or Tset for every digit of its path in the tree of
\* arity TUPLE_SIZE that link builds; peephole deletes Noop and Push, Pop and
\* turns Push a, Push b, Swap1 into Push b, Push a; strip_labels makes every
\* Label instruction a Noop, its position the code point of the label, rewrites the labels held
\* by immediates, by the jump table and by the exports, and fails on a label
\* without a site. The static value is the jump table as a tuple.
postlink_compile(program) ==
    LET TUPLE_SIZE == 8
        IsRef(insn) == insn.immediate.some /\ insn.immediate.val.kind = "Label"
        IsPush(insn) == insn.opcode = "Noop" /\ insn.immediate.some
        Index(seq, x) == CHOOSE k \in 1..Len(seq) : seq[k] = x
        RECURSIVE fix_nonforward_labels(_, _, _, _)
        fix_nonforward_labels(k, seen, jump_table, code_2) ==
            IF k > Len(program.code) THEN [code |-> code_2, jump_table |-> jump_table]
            ELSE IF program.code[k].opcode = "Label"
            THEN fix_nonforward_labels(k + 1, seen \cup {program.code[k].label}, jump_table,
                                       Append(code_2, program.code[k]))
            ELSE IF IsRef(program.code[k]) /\ program.code[k].immediate.val.label \in seen
            THEN CHOOSE out \in
                    {fix_nonforward_labels(k + 1, seen, jt,
                         code_2 \o <<from_opcode("PushStatic"),
                                     from_opcode_imm("Tget",
                                         Value_Int(from_usize(
                                             Index(jt, program.code[k].immediate.val.label) - 1))),
                                     from_opcode(program.code[k].opcode)>>) :
                       jt \in {IF \E n \in 1..Len(jump_table) :
                                    jump_table[n] = program.code[k].immediate.val.label
                               THEN jump_table
                               ELSE Append(jump_table, program.code[k].immediate.val.label)}} :
                    TRUE
            ELSE fix_nonforward_labels(k + 1, seen, jump_table, Append(code_2, program.code[k]))
        RECURSIVE PathIn(_, _)
        PathIn(n, i) ==
            IF n <= TUPLE_SIZE THEN <<i>>
            ELSE LET chunk == IF n <= TUPLE_SIZE * TUPLE_SIZE THEN TUPLE_SIZE
                              ELSE TUPLE_SIZE * TUPLE_SIZE
                 IN  <<i \div chunk>>
                       \o PathIn(IF ((i \div chunk) + 1) * chunk <= n THEN chunk
                                 ELSE n - (i \div chunk) * chunk, i % chunk)
        Path(i) == PathIn(program.global_num_limit, i)
        Step(op, path) == SubSeq([n \in 1..Len(path) |->
                                    from_opcode_imm(op, Value_Int(from_usize(path[n])))],
                                 1, Len(path))
        RECURSIVE fix_tuple_size(_)
        fix_tuple_size(c) ==
            IF c = <<>> THEN <<>>
            ELSE (IF Head(c).opcode = "GetGlobalVar"
                  THEN <<from_opcode("Rget")>> \o Step("Tget", Path(Head(c).idx))
                  ELSE IF Head(c).opcode = "SetGlobalVar"
                  THEN <<from_opcode("Rget")>> \o Step("Tset", Path(Head(c).idx))
                         \o <<from_opcode("Rset")>>
                  ELSE <<Head(c)>>) \o fix_tuple_size(Tail(c))
        RECURSIVE peephole(_)
        peephole(c) ==
            IF c = <<>> THEN <<>>
            ELSE IF c[1] = from_opcode("Noop") THEN peephole(Tail(c))
            ELSE IF Len(c) >= 2 /\ IsPush(c[1]) /\ c[2] = from_opcode("Pop")
            THEN peephole(SubSeq(c, 3, Len(c)))
            ELSE IF Len(c) >= 3 /\ IsPush(c[1]) /\ IsPush(c[2]) /\ c[3] = from_opcode("Swap1")
            THEN <<c[2], c[1]>> \o peephole(SubSeq(c, 4, Len(c)))
            ELSE <<c[1]>> \o peephole(Tail(c))
        Site(c, l) == {k \in 1..Len(c) : c[k].opcode = "Label" /\ c[k].label = l}
        Pc(c, l) == Internal((CHOOSE k \in Site(c, l) : \A n \in Site(c, l) : n <= k) - 1)
        strip_labels(c, jump_table) ==
            IF \/ \E k \in 1..Len(c) : IsRef(c[k]) /\ Site(c, c[k].immediate.val.label) = {}
               \/ \E k \in 1..Len(jump_table) : Site(c, jump_table[k]) = {}
               \/ \E k \in 1..Len(program.exported_funcs) :
                     Site(c, program.exported_funcs[k].label) = {}
            THEN [ok |-> FALSE]
            ELSE [ok |-> TRUE,
                  code |-> SubSeq([k \in 1..Len(c) |->
                              IF c[k].opcode = "Label" THEN from_opcode("Noop")
                              ELSE IF IsRef(c[k])
                              THEN [c[k] EXCEPT !.immediate.val =
                                       Value_CodePoint(Pc(c, @.label))]
                              ELSE c[k]], 1, Len(c)),
                  jump_table |-> SubSeq([k \in 1..Len(jump_table) |->
                                           Value_CodePoint(Pc(c, jump_table[k]))],
                                        1, Len(jump_table)),
                  exported_funcs |->
                      SubSeq([k \in 1..Len(program.exported_funcs) |->
                                [name |-> program.exported_funcs[k].name,
                                 codept |-> Pc(c, program.exported_funcs[k].label),
                                 tipe |-> program.exported_funcs[k].tipe]],
                             1, Len(program.exported_funcs))]
    IN  CHOOSE out \in
          {IF ~stripped.ok
           THEN [ok |-> FALSE, err |-> "reference to non-existent function"]
           ELSE [ok |-> TRUE,
                 val |-> [code |-> stripped.code,
                          static_val |-> Value_Tuple(stripped.jump_table),
                          exported_funcs |-> stripped.exported_funcs,
                          imported_funcs |-> program.imported_funcs]] :
             stripped \in
               {strip_labels(peephole(fix_tuple_size(fixed.code)), fixed.jump_table) :
                  fixed \in {fix_nonforward_labels(1, {}, <<>>, <<>>)}}} : TRUE

(***************************************************************************)
(* The operations on a RuntimeEnvironment, called one after the other on   *)
(* the environment its constructor built; the machine stays as it is.      *)
(***************************************************************************)
\* every operation: one more call on the environment, the machine untouched
EnvCalled ==
    /\ rt_ops < MaxEnvOps
    /\ rt_ops' = rt_ops + 1
    /\ UNCHANGED <<ln_progs, ln_out>>
    /\ UNCHANGED <<code, in_msgs, static_val, stack, aux_stack, state, register, l1_inbox, logs,
                   panicked, phase, caller, stop_pc, last, result, steps, inserted, resets,
                   logged>>

EnvInsertL1Message(msg_type, sender_addr, msg) ==
    /\ EnvCalled
    /\ rt_env' = insert_l1_message(rt_env, msg_type, sender_addr, msg).env
    /\ rt_call' = [op |-> "insert_l1_message", msg_type |-> msg_type,
                   sender_addr |-> sender_addr, msg |-> msg,
                   ret |-> insert_l1_message(rt_env, msg_type, sender_addr, msg).msg_id]
    /\ rt_sent' = Append(rt_sent, rt_env'.l1_inbox[Len(rt_env'.l1_inbox)])
    /\ UNCHANGED rt_asked

\* a call that stops the host is the end of the host: no step of the model
EnvInsertL2Message(sender_addr, msg, is_buddy_deploy) ==
    /\ EnvCalled
    /\ ~insert_l2_message(rt_env, sender_addr, msg, is_buddy_deploy).panicked
    /\ rt_env' = insert_l2_message(rt_env, sender_addr, msg, is_buddy_deploy).env
    /\ rt_call' = [op |-> "insert_l2_message", sender_addr |-> sender_addr, msg |-> msg,
                   is_buddy_deploy |-> is_buddy_deploy,
                   ret |-> insert_l2_message(rt_env, sender_addr, msg, is_buddy_deploy).msg_id]
    /\ rt_sent' = Append(rt_sent, rt_env'.l1_inbox[Len(rt_env'.l1_inbox)])
    /\ UNCHANGED rt_asked

EnvGetAndIncrSeqNum(addr) ==
    /\ EnvCalled
    /\ rt_env' = get_and_incr_seq_num(rt_env, addr).env
    /\ rt_call' = [op |-> "get_and_incr_seq_num", addr |-> addr,
                   ret |-> get_and_incr_seq_num(rt_env, addr).val]
    /\ rt_asked' = [rt_asked EXCEPT ![addr] = @ + 1]
    /\ UNCHANGED rt_sent

EnvGetFromInbox ==
    /\ EnvCalled
    /\ rt_env' = [rt_env EXCEPT !.l1_inbox = get_from_inbox(@).l1_inbox]
    /\ rt_call' = [op |-> "get_from_inbox", ret |-> get_from_inbox(rt_env.l1_inbox).val]
    /\ UNCHANGED <<rt_sent, rt_asked>>

\* peek_at_inbox_head: a clone of the first message, None on an empty inbox
EnvPeekAtInboxHead ==
    /\ EnvCalled
    /\ rt_call' = [op |-> "peek_at_inbox_head",
                   ret |-> IF rt_env.l1_inbox = <<>> THEN None ELSE Some(rt_env.l1_inbox[1])]
    /\ UNCHANGED <<rt_env, rt_sent, rt_asked>>

EnvPushLog(size, buf) ==
    /\ EnvCalled
    /\ rt_env' = push_log(rt_env, size, buf)
    /\ rt_call' = [op |-> "push_log", size |-> size, buf |-> buf]
    /\ UNCHANGED <<rt_sent, rt_asked>>

EnvPushSend(size, buf) ==
    /\ EnvCalled
    /\ rt_env' = push_send(rt_env, size, buf)
    /\ rt_call' = [op |-> "push_send", size |-> size, buf |-> buf]
    /\ UNCHANGED <<rt_sent, rt_asked>>

EnvInsertFullInboxContents(contents) ==
    /\ EnvCalled
    /\ rt_env' = insert_full_inbox_contents(rt_env, contents)
    /\ rt_call' = [op |-> "insert_full_inbox_contents", contents |-> contents]
    /\ UNCHANGED <<rt_sent, rt_asked>>

\* a call of compress_address on the compressor of the environment
EnvCompressAddress(addr) ==
    /\ EnvCalled
    /\ rt_env' = [rt_env EXCEPT !.compressor = compress_address(@, addr).compressor]
    /\ rt_call' = [op |-> "compress_address", addr |-> addr,
                   ret |-> compress_address(rt_env.compressor, addr).val]
    /\ UNCHANGED <<rt_sent, rt_asked>>

EnvGetAllSends ==
    /\ EnvCalled
    /\ rt_call' = [op |-> "get_all_sends", ret |-> get_all_sends(rt_env)]
    /\ UNCHANGED <<rt_env, rt_sent, rt_asked>>

\* a machine is loaded with a program on the environment and run
EnvRunMachine(cd) ==
    /\ EnvCalled
    /\ rt_env' = run_on_env(rt_env, cd).env
    /\ rt_call' = [op |-> "run", prog |-> cd, ok |-> run_on_env(rt_env, cd).ok]
    /\ UNCHANGED <<rt_sent, rt_asked>>

\* the recording of a run is replayed against a program when the run is over
EnvReplayAndCompare(arbos, require_same_gas) ==
    /\ EnvCalled
    /\ rt_call.op = "run"
    /\ rt_call' = [op |-> "replay_and_compare", prog |-> arbos,
                   require_same_gas |-> require_same_gas, recorded |-> rt_call,
                   ret |-> replay_and_compare(rt_env.recorder, arbos, require_same_gas)]
    /\ UNCHANGED <<rt_env, rt_sent, rt_asked>>

\* a byte sequence is made a byte stack and read back (test_rust_bytestacks)
EnvBytestack(before) ==
    /\ EnvCalled
    /\ rt_call' = [op |-> "_bytes_from_bytestack", before |-> before,
                   after |-> _bytes_from_bytestack(bytestack_from_bytes(before))]
    /\ UNCHANGED <<rt_env, rt_sent, rt_asked>>

EnvInit == MachineInit([code |-> <<>>, in_msgs |-> <<>>])

EnvNext ==
    \/ \E msg \in {<<>>, <<1, 2, 3>>} :
          \/ EnvInsertL1Message(0, from_usize(7), msg)
          \/ EnvInsertL1Message(3, from_usize(300), msg)
    \/ \E msg \in {<<>>, <<0, 9>>, <<1, 9>>}, is_buddy_deploy \in BOOLEAN :
          EnvInsertL2Message(from_usize(300), msg, is_buddy_deploy)
    \/ \E addr \in Addrs : EnvGetAndIncrSeqNum(addr)
    \/ EnvGetFromInbox
    \/ EnvPeekAtInboxHead
    \/ \E size \in {0, 2, 5} :
          EnvPushLog(from_usize(size), IF size = 0 THEN <<>> ELSE <<9, 8, 7>>)
    \/ \E size \in {0, 2, 5} :
          EnvPushSend(from_usize(size), IF size = 0 THEN <<>> ELSE <<6, 5>>)
    \/ \E kind \in {1, 2}, payload \in {<<>>, <<5, 6, 7>>} :
          \E buf \in {from_usize(kind) \o from_usize(Len(payload)) \o payload} :
             \/ EnvPushLog(from_usize(Len(buf)), buf)
             \/ EnvPushSend(from_usize(Len(buf)), buf)
    \/ EnvGetAllSends
    \/ \E addr \in Addrs \cup {Pad(<<1, 2>>, 12) \o Pad(<<7>>, 20)} : EnvCompressAddress(addr)
    \/ \E contents \in {<<>>, <<<<1, 2, 3>>>>, <<<<7>>, <<8>>>>} :
          EnvInsertFullInboxContents(contents)
    \/ \E gas \in 0..2 : EnvRunMachine(ArbosProg(gas))
    \/ \E gas \in 0..2, require_same_gas \in BOOLEAN :
          EnvReplayAndCompare(ArbosProg(gas), require_same_gas)
    \/ \E n \in {0, 1, 31, 32, 33, 64, 65} :
          EnvBytestack(SubSeq([i \in 1..n |-> 3 * i], 1, n))

EnvSpec == EnvInit /\ [][EnvNext]_vars

(***************************************************************************)
(* The compile subcommand (src/src/main.rs): the input files are compiled  *)
(* one after the other, then the programs are linked; the machine and the  *)
(* RuntimeEnvironment stay as they are.                                    *)
(***************************************************************************)
\* a faulty to_output: a format it does not know is taken for the default
to_output_default(self, format) ==
    IF format = Some("pretty")
    THEN <<[text |-> "exported: ", val |-> self.exported_funcs],
           [text |-> "imported: ", val |-> self.imported_funcs]>>
           \o (IF "static_val" \in DOMAIN self
               THEN <<[text |-> "static: ", val |-> self.static_val]>> ELSE <<>>)
           \o SubSeq([k \in 1..Len(self.code) |->
                        [text |-> "insn", idx |-> k - 1, val |-> self.code[k]]],
                     1, Len(self.code))
    ELSE IF format = Some("bincode") THEN <<[bytes |-> "bincode", val |-> self]>>
    ELSE <<[text |-> "json", val |-> self]>>

\* LinkedProgram::to_output, and CompiledProgram::to_output (compile.rs), which
\* differs by having no static value to write: what is written to output, a
\* line of text for every writeln! and the bytes of write_all. serde_json and
\* bincode are taken to serialize every program.
to_output(self, format) ==
    IF format = Some("pretty")
    THEN <<[text |-> "exported: ", val |-> self.exported_funcs],
           [text |-> "imported: ", val |-> self.imported_funcs]>>
           \o (IF "static_val" \in DOMAIN self
               THEN <<[text |-> "static: ", val |-> self.static_val]>> ELSE <<>>)
           \o SubSeq([k \in 1..Len(self.code) |->
                        [text |-> "insn", idx |-> k - 1, val |-> self.code[k]]],
                     1, Len(self.code))
    ELSE IF format = None \/ format = Some("json") THEN <<[text |-> "json", val |-> self]>>
    ELSE IF format = Some("bincode") THEN <<[bytes |-> "bincode", val |-> self]>>
    ELSE <<[text |-> "invalid format: ", val |-> format.val]>>

\* compile_from_file has returned for the next input file: a program is
\* collected, an error is written to the output and the loop goes on
CompileFromFile(res) ==
    /\ Len(ln_progs) + Len(ln_out.errors) < MaxProgs
    /\ ln_progs' = IF res.ok THEN Append(ln_progs, res.val) ELSE ln_progs
    /\ ln_out' = [op |-> "compile_from_file",
                  errors |-> IF res.ok THEN ln_out.errors
                             ELSE Append(ln_out.errors,
                                         [text |-> "Compilation error: ", val |-> res.err])]
    /\ UNCHANGED <<code, in_msgs, static_val, stack, aux_stack, state, register, l1_inbox, logs,
                   panicked, phase, caller, stop_pc, last, result, steps, inserted, resets,
                   logged, rt_env, rt_call, rt_sent, rt_asked, rt_ops>>

\* the rest of main: link(&compiled_progs), postlink_compile of what it
\* returned, the program or the error written to the output, and the return,
\* on which the process ends with the exit code 0
Link(format) ==
    /\ \A completed \in {IF link(ln_progs).ok THEN postlink_compile(link(ln_progs).val)
                          ELSE link(ln_progs)} :
          ln_out' = [op |-> "link", progs_in |-> ln_progs, ret |-> link(ln_progs),
                    completed |-> completed, format |-> format, errors |-> ln_out.errors,
                    written |-> IF completed.ok THEN to_output(completed.val, format)
                                ELSE <<[text |-> "Linking error: ", val |-> completed.err]>>,
                    exit_code |-> 0]
    /\ UNCHANGED ln_progs
    /\ UNCHANGED <<code, in_msgs, static_val, stack, aux_stack, state, register, l1_inbox, logs,
                   panicked, phase, caller, stop_pc, last, result, steps, inserted, resets,
                   logged, rt_env, rt_call, rt_sent, rt_asked, rt_ops>>

\* to_output of one of the programs, as compile_from_file returned it
ToOutput(i, format) ==
    /\ i \in 1..Len(ln_progs)
    /\ ln_out' = [op |-> "to_output", self |-> ln_progs[i], format |-> format,
                  errors |-> ln_out.errors, written |-> to_output(ln_progs[i], format)]
    /\ UNCHANGED ln_progs
    /\ UNCHANGED <<code, in_msgs, static_val, stack, aux_stack, state, register, l1_inbox, logs,
                   panicked, phase, caller, stop_pc, last, result, steps, inserted, resets,
                   logged, rt_env, rt_call, rt_sent, rt_asked, rt_ops>>

\* one of the programs is relocated by itself
Relocate(i, int_offset, ext_offset, func_offset) ==
    /\ i \in 1..Len(ln_progs)
    /\ ln_out' = [op |-> "relocate", prog |-> ln_progs[i], int_offset |-> int_offset,
                  ext_offset |-> ext_offset, func_offset |-> func_offset,
                  ret |-> relocate(ln_progs[i], int_offset, ext_offset, func_offset, 0),
                  errors |-> ln_out.errors]
    /\ UNCHANGED ln_progs
    /\ UNCHANGED <<code, in_msgs, static_val, stack, aux_stack, state, register, l1_inbox, logs,
                   panicked, phase, caller, stop_pc, last, result, steps, inserted, resets,
                   logged, rt_env, rt_call, rt_sent, rt_asked, rt_ops>>

\* the programs the input files compile to
LinkNext ==
    LET Func(id) == [kind |-> "Func", id |-> id]
        Label(l) == [opcode |-> "Label", label |-> l, immediate |-> None]
        Ref(kind, id) == [kind |-> "Label", label |-> [kind |-> kind, id |-> id]]
        Imp(name, slot) == [name |-> name, slot_num |-> slot, arg_types |-> <<>>,
                            ret_type |-> "uint", is_impure |-> FALSE]
        Exp(name, id, ret) == [name |-> name, label |-> Func(id),
                               tipe |-> <<"Func", FALSE, <<>>, ret>>]
        Prog(c, e, i, g) == [code |-> c, exported_funcs |-> e, imported_funcs |-> i,
                             global_num_limit |-> g]
    IN  \/ \E compiled_program \in
              {Prog(<<>>, <<>>, <<>>, 0),
               Prog(<<Label(Func(0)), from_opcode_imm("Jump", Ref("Func", 1)),
                      from_opcode("Noop"), Label(Func(1)),
                      from_opcode_imm("Jump", Ref("Func", 0)),
                      [opcode |-> "GetGlobalVar", idx |-> 0, immediate |-> None],
                      from_opcode_imm("Noop", Value_CodePoint(Internal(0)))>>,
                    <<Exp("f", 0, "uint")>>, <<>>, 1),
               Prog(<<Label(Func(0)), from_opcode_imm("Noop", Ref("External", 0)),
                      from_opcode_imm("Noop", Ref("External", 1)),
                      [opcode |-> "GetGlobalVar", idx |-> 0, immediate |-> None]>>,
                    <<Exp("g", 0, "uint")>>, <<Imp("f", 0), Imp("nowhere", 1)>>, 1),
               Prog(<<Label(Func(0)), from_opcode_imm("Noop", Ref("External", 0))>>,
                    <<Exp("f", 0, "bool")>>, <<Imp("f", 0)>>, 0),
               Prog(<<Label(Func(0)),
                      [opcode |-> "GetGlobalVar", idx |-> 64, immediate |-> None],
                      [opcode |-> "SetGlobalVar", idx |-> 64, immediate |-> None],
                      [opcode |-> "GetGlobalVar", idx |-> 9, immediate |-> None]>>,
                    <<Exp("h", 0, "uint")>>, <<>>, 65)} :
              CompileFromFile([ok |-> TRUE, val |-> compiled_program])
        \/ CompileFromFile([ok |-> FALSE, err |-> "type error"])
        \/ \E format \in {None, Some("json"), Some("pretty"), Some("bincode"), Some("yaml")} :
              \/ Link(format)
              \/ \E i \in 1..MaxProgs : ToOutput(i, format)
        \/ \E i \in 1..MaxProgs, off \in {<<0, 0, 0>>, <<5, 2, 3>>} :
              Relocate(i, off[1], off[2], off[3])

LinkSpec == EnvInit /\ [][LinkNext]_vars
(***************************************************************************)
(* The claims.                                                             *)
(***************************************************************************)

C3_AddTerminatesNormally ==
    (code = AddProg /\ caller = "test_call" /\ last = "return")
        => /\ test_call_result(state, stack).ok
           /\ stack[Len(stack)] = U(5)

\* C4: test_call starts the machine at the entry with, from the top of the
\* stack down, the sentinel and the arguments first to last, the sentinel
\* being Internal(len(code)), which is also the stop_pc of the run.
C4_SentinelJustPastCode ==
    (last = "call")
        => /\ state = Running(Internal(0))
           /\ stop_pc = Some(Internal(Len(code)))
           /\ \E args \in ArgLists :
                 stack = SubSeq([i \in 1..Len(args) |-> args[Len(args) + 1 - i]], 1, Len(args))
                            \o <<Value_CodePoint(Internal(Len(code)))>>

\* C5: a step of a machine whose pc is internal, is not an index of the code
\* and is not the stop_pc makes the state Error(RunningErr("invalid program
\* counter", pc, None)); test_call on the empty program returns that error.
C5_InvalidProgramCounter ==
    [][/\ (phase = "run" /\ state.kind = "Running" /\ state.pc.kind = "Internal"
              /\ state.pc.pc >= Len(code) /\ ~AtStop)
            => state' = Error(RunningErr("invalid program counter", state.pc, None))
       /\ (code = <<>> /\ caller = "test_call" /\ last' = "return")
            => /\ ~result'.val.ok
               /\ result'.val.err = RunningErr("invalid program counter", Internal(0), None)]_vars

\* test_call on the empty program has returned the error
C5_EmptyProgramErr ==
    /\ code = <<>>
    /\ caller = "test_call"
    /\ last = "return"
    /\ state = Error(RunningErr("invalid program counter", Internal(0), None))

\* C6 as stated: test_call on [push true; push Internal(3); Cjump; Panic;
\* push 7] ends without error and with Int(7) on top of the stack.
C6_CjumpSkipsPanic ==
    (code = CjumpProg /\ caller = "test_call" /\ last = "return")
        => /\ state.kind # "Error"
           /\ stack # <<>>
           /\ stack[Len(stack)] = U(7)

\* C6: test_call on [push true; push Internal(3); Cjump; Panic; push 7] ends
\* with the error RunningErr("panicked", Internal(3), None): the taken Cjump
\* transfers control to index 3, the Panic instruction, and Int(7) is never
\* pushed.
C6_CjumpReachesPanic ==
    (code = CjumpProg /\ caller = "test_call" /\ last = "return")
        => /\ state = Error(RunningErr("panicked", Internal(3), None))
           /\ ~result.val.ok
           /\ \A j \in 1..Len(stack) : stack[j] # U(7)

\* the call on the Cjump program has returned
C6_CjumpRunEnded ==
    /\ code = CjumpProg
    /\ caller = "test_call"
    /\ last = "return"
    /\ steps = 4
    /\ result # None

\* C7 as stated: a zero divisor of Div or Sdiv gives the reason "divide by
\* zero", a zero modulus of Mod, Smod, AddMod or MulMod gives "modulo by
\* zero", UnaryMinus of 2^255 gives "overflow", each with the pc of the
\* failing instruction.
C7_ReasonOverflow ==
    [][(phase = "run" /\ Fetched.some /\ ~Fetched.val.immediate.some
          /\ Fetched.val.opcode \in {"Div", "Sdiv", "Mod", "Smod", "AddMod", "MulMod",
                                     "UnaryMinus"})
         => LET op  == Fetched.val.opcode
                n   == Len(stack)
                k   == IF op = "UnaryMinus" THEN 1 ELSE IF op \in {"AddMod", "MulMod"} THEN 3 ELSE 2
                bad == IF op = "UnaryMinus" THEN Value_Int(MinSigned) ELSE U(0)
                why == IF op = "UnaryMinus" THEN "overflow"
                       ELSE IF op \in {"Div", "Sdiv"} THEN "divide by zero" ELSE "modulo by zero"
            IN  (n >= k /\ (\A j \in 1..k : stack[n + 1 - j].kind = "Int") /\ stack[n + 1 - k] = bad)
                    => state' = Error(RunningErr(why, state.pc, None))]_vars

\* C7: a zero divisor of Div or Sdiv gives the reason "divide by zero", a
\* zero modulus of Mod, Smod, AddMod or MulMod gives "modulo by zero",
\* UnaryMinus of 2^255 gives "signed integer overflow in unary minus", each
\* with the pc of the failing instruction.
C7_ZeroDivisorReasons ==
    [][(phase = "run" /\ Fetched.some /\ ~Fetched.val.immediate.some
          /\ Fetched.val.opcode \in {"Div", "Sdiv", "Mod", "Smod", "AddMod", "MulMod",
                                     "UnaryMinus"})
         => LET op  == Fetched.val.opcode
                n   == Len(stack)
                k   == IF op = "UnaryMinus" THEN 1 ELSE IF op \in {"AddMod", "MulMod"} THEN 3 ELSE 2
                bad == IF op = "UnaryMinus" THEN Value_Int(MinSigned) ELSE U(0)
                why == IF op = "UnaryMinus" THEN "signed integer overflow in unary minus"
                       ELSE IF op \in {"Div", "Sdiv"} THEN "divide by zero" ELSE "modulo by zero"
            IN  (n >= k /\ (\A j \in 1..k : stack[n + 1 - j].kind = "Int") /\ stack[n + 1 - k] = bad)
                    => state' = Error(RunningErr(why, state.pc, None))]_vars

\* [push 0; push 10; Div] has failed at pc 2
C7_DivideByZeroAtPc2 ==
    /\ code = DivZeroProg
    /\ state = Error(RunningErr("divide by zero", Internal(2), None))

\* C8: no step raises a panic of the host language; a pc outside the code, an
\* external pc and a compile-time opcode each give a RunningErr and the
\* Error state.
C8_NoHostPanic ==
    [][/\ ~panicked'
       /\ (phase = "run" /\ state.kind = "Running" /\ ~AtStop
              /\ (\/ state.pc.kind = "External"
                  \/ state.pc.pc >= Len(code)
                  \/ Fetched.val.opcode \in CompileTimeOpcodes))
            => (state'.kind = "Error" /\ state'.err.kind = "RunningErr")]_vars

\* C9: a failing instruction makes the state Error(e), e carrying the pc of
\* the instruction; with the state Error the run executes nothing more and
\* returns, and no step of a run changes the stacks, the register or the
\* state.
C9_ErrorHalts ==
    [][/\ (last' = "err")
            => (state.kind = "Running" /\ state'.kind = "Error" /\ state'.err.pc = state.pc)
       /\ (state.kind = "Error" /\ phase = "run") => last' = "return"
       /\ (state.kind = "Error" /\ last' # "reset")
            => (UNCHANGED <<stack, aux_stack, register, state>> /\ steps' = steps)]_vars

\* a run was called on a machine in the Error state and has returned
C9_ErrorKept ==
    /\ state.kind = "Error"
    /\ caller = "driver"
    /\ last = "return"

\* C10: Byte, with i popped first and x second, pushes byte i of x counted
\* from the most significant of its 32 bytes when i < 32, and 0 otherwise.
C10_ByteOfWord ==
    [][(phase = "run" /\ Fetched.some /\ Fetched.val.opcode = "Byte"
          /\ ~Fetched.val.immediate.some /\ Len(stack) >= 2
          /\ stack[Len(stack)].kind = "Int" /\ stack[Len(stack) - 1].kind = "Int")
         => LET n == Len(stack)
                i == stack[n].uint
                x == stack[n - 1].uint
            IN  stack' = Append(SubSeq(stack, 1, n - 2),
                                IF less_than(i, from_usize(32)) THEN U(x[SmallNat(i) + 1])
                                ELSE U(0))]_vars

\* C11: SignExtend, with bnum popped first and x second, pushes x when
\* bnum > 31; otherwise it pushes x with every bit above position 8*bnum+7
\* equal to the bit at that position and the bits at or below it unchanged
\* (byte 32 - bnum of the big-endian word carries the sign, the bytes before
\* it become 255 or 0).
C11_SignExtendFromByte ==
    [][(phase = "run" /\ Fetched.some /\ Fetched.val.opcode = "SignExtend"
          /\ ~Fetched.val.immediate.some /\ Len(stack) >= 2
          /\ stack[Len(stack)].kind = "Int" /\ stack[Len(stack) - 1].kind = "Int")
         => LET n    == Len(stack)
                bnum == stack[n].uint
                x    == stack[n - 1].uint
                sb   == WordBytes - SmallNat(bnum)
                ext  == [j \in 1..WordBytes |->
                           IF j >= sb THEN x[j] ELSE IF x[sb] >= 128 THEN 255 ELSE 0]
            IN  stack' = Append(SubSeq(stack, 1, n - 2),
                                Value_Int(IF less_than(from_usize(31), bnum) THEN x
                                          ELSE SubSeq(ext, 1, WordBytes)))]_vars

\* C12: Tset pops idx, a tuple and val and, when idx < len(tuple), pushes the
\* tuple with val at idx and every other element as it was; Tget pops idx
\* and a tuple and pushes tuple[idx]; when idx >= len(tuple) both end in an
\* error with their operands popped and nothing pushed.
C12_TsetTget ==
    [][(phase = "run" /\ Fetched.some /\ Fetched.val.opcode \in {"Tset", "Tget"})
         => LET s == IF Fetched.val.immediate.some
                     THEN Append(stack, Fetched.val.immediate.val) ELSE stack
                n == Len(s)
                k == IF Fetched.val.opcode = "Tset" THEN 3 ELSE 2
            IN  (n >= k /\ s[n].kind = "Int" /\ to_usize(s[n].uint).some /\ s[n - 1].kind = "Tuple")
                  => LET tup == s[n - 1].items
                         idx == SmallNat(s[n].uint)
                     IN  IF (\A j \in 1..(WordBytes - 3) : s[n].uint[j] = 0) /\ idx < Len(tup)
                         THEN /\ state' = Running(Internal(state.pc.pc + 1))
                              /\ stack' = Append(SubSeq(s, 1, n - k),
                                    IF k = 2 THEN tup[idx + 1]
                                    ELSE Value_Tuple(SubSeq([j \in 1..Len(tup) |->
                                           IF j = idx + 1 THEN s[n - 2] ELSE tup[j]], 1, Len(tup))))
                         ELSE /\ state'.kind = "Error"
                              /\ stack' = SubSeq(s, 1, n - k)]_vars

\* Tget 1 has read back the Int(9) that Tset 1 stored in the pair
C12_ReadBack ==
    /\ Len(code) = 4
    /\ code[3] = from_opcode_imm("Tset", U(1))
    /\ code[4] = from_opcode_imm("Tget", U(1))
    /\ state = Running(Internal(4))
    /\ stack[Len(stack)] = U(9)

\* C13: with a slot on top of the primary stack and a tuple on top of the
\* aux stack, Xget pops the slot, pushes element slot of that tuple and
\* leaves the aux stack as it was, and Xset pops the slot and a value and
\* replaces the aux top by the same tuple with the value at slot, the aux
\* depth unchanged; a non-tuple aux top or a slot out of bounds ends in an
\* error.
C13_XgetXset ==
    [][(phase = "run" /\ Fetched.some /\ Fetched.val.opcode \in {"Xget", "Xset"})
         => LET s == IF Fetched.val.immediate.some
                     THEN Append(stack, Fetched.val.immediate.val) ELSE stack
                n == Len(s)
                a == Len(aux_stack)
                k == IF Fetched.val.opcode = "Xset" THEN 2 ELSE 1
            IN  (n >= k /\ s[n].kind = "Int" /\ to_usize(s[n].uint).some /\ a >= 1)
                  => LET top == aux_stack[a]
                         idx == SmallNat(s[n].uint)
                     IN  IF top.kind = "Tuple"
                            /\ (\A j \in 1..(WordBytes - 3) : s[n].uint[j] = 0)
                            /\ idx < Len(top.items)
                         THEN /\ state' = Running(Internal(state.pc.pc + 1))
                              /\ Len(aux_stack') = a
                              /\ IF k = 1
                                 THEN /\ aux_stack' = aux_stack
                                      /\ stack' = Append(SubSeq(s, 1, n - 1), top.items[idx + 1])
                                 ELSE /\ stack' = SubSeq(s, 1, n - 2)
                                      /\ aux_stack' = Append(SubSeq(aux_stack, 1, a - 1),
                                           Value_Tuple(SubSeq([j \in 1..Len(top.items) |->
                                               IF j = idx + 1 THEN s[n - 1] ELSE top.items[j]],
                                             1, Len(top.items))))
                         ELSE state'.kind = "Error"]_vars

\* Xset 1 has stored Int(9) in slot 1 of the pair on top of the aux stack
C13_SlotWritten ==
    /\ Len(code) = 4
    /\ code[4] = from_opcode_imm("Xset", U(1))
    /\ state = Running(Internal(4))
    /\ Len(aux_stack) = 1
    /\ aux_stack[1] = Value_Tuple(<<Pair.items[1], U(9)>>)

\* C14: an instruction with an immediate acts as the same opcode without
\* one does on the stack with the immediate pushed; an executed opcode other
\* than Jump and Cjump leaves the pc one greater, Jump sets the pc to the
\* code point on top of the stack, and Cjump, with a code point on top and a
\* condition under it, sets the pc to the code point when the condition is 1
\* and to pc + 1 when it is 0.
C14_ImmediateThenPc ==
    [][(phase = "run" /\ Fetched.some /\ last' = "ok")
         => LET insn == Fetched.val
                s    == IF insn.immediate.some THEN Append(stack, insn.immediate.val) ELSE stack
                n    == Len(s)
                next == Running(Internal(state.pc.pc + 1))
                bare == run_one([code EXCEPT ![state.pc.pc + 1] = from_opcode(insn.opcode)],
                                [Mach EXCEPT !.stack = s]).m
            IN  /\ <<stack', aux_stack', state'>> = <<bare.stack, bare.aux_stack, bare.state>>
                /\ insn.opcode = "Noop" => stack' = s
                /\ insn.opcode \notin {"Jump", "Cjump"} => state' = next
                /\ insn.opcode = "Jump" => state' = Running(s[n].cp)
                /\ insn.opcode = "Cjump"
                     => /\ stack' = SubSeq(s, 1, n - 2)
                        /\ s[n - 1].uint \in {zero, one}
                        /\ state' = IF s[n - 1].uint = one THEN Running(s[n].cp) ELSE next]_vars

\* a Cjump on the condition 0 has fallen through to the next instruction
C14_CjumpNotTaken ==
    /\ Len(code) = 4
    /\ code[1] = Push(U(0))
    /\ code[3] = Op("Cjump")
    /\ state = Running(Internal(3))
    /\ last = "ok"
    /\ steps = 3

\* C15: an opcode whose first operand has another variant than the one it
\* pops ends in an error, and so does Cjump, Not, LogicalAnd or LogicalOr on
\* an integer other than 0 and 1 where it pops a boolean, and Tset, Tget,
\* Xget or Xset on an index that does not fit the host word; an opcode that
\* pops from an empty stack ends in the error "stack underflow".
C15_TypedPopErrors ==
    [][(phase = "run" /\ Fetched.some /\ Operands(Fetched.val.opcode) # <<>>)
         => LET op == Fetched.val.opcode
                s  == IF Fetched.val.immediate.some
                      THEN Append(stack, Fetched.val.immediate.val) ELSE stack
                n  == Len(s)
                k1 == Operands(op)[1]
                want == CASE k1 = "codepoint" -> {"CodePoint"}
                          [] k1 \in {"uint", "usize", "bool"} -> {"Int"}
                          [] k1 = "tuple" -> {"Tuple"}
                          [] OTHER -> {"Int", "CodePoint", "Tuple", "None"}
            IN  /\ (n >= 1 /\ s[n].kind \notin want) => state'.kind = "Error"
                /\ (n >= 1 /\ op \in {"Not", "LogicalAnd", "LogicalOr"} /\ s[n].kind = "Int"
                      /\ s[n].uint \notin {zero, one}) => state'.kind = "Error"
                /\ (n >= 2 /\ op = "Cjump" /\ s[n].kind = "CodePoint"
                      /\ (s[n - 1].kind # "Int" \/ s[n - 1].uint \notin {zero, one}))
                     => state'.kind = "Error"
                /\ (n >= 1 /\ op \in {"Tset", "Tget", "Xget", "Xset"} /\ s[n].kind = "Int"
                      /\ \E j \in 1..(WordBytes - 8) : s[n].uint[j] # 0)
                     => state'.kind = "Error"
                /\ n = 0 => state' = Error(RunningErr("stack underflow", state.pc, None))]_vars

\* C16: one executed instruction changes the depth of the primary stack,
\* the push of its immediate aside, by an amount fixed by its opcode alone:
\* +1 for GetPC, Rget, PushStatic, AuxPop, Inbox and the Dups, 0 for Noop,
\* Xget, the Swaps and the one-operand opcodes, -2 for Cjump, Tset, Xset,
\* AddMod and MulMod, and -1 for every other opcode.
C16_StackDelta ==
    [][(phase = "run" /\ Fetched.some /\ last' = "ok")
         => LET op == Fetched.val.opcode
                before == Len(stack) + (IF Fetched.val.immediate.some THEN 1 ELSE 0)
                delta == CASE op \in {"GetPC", "Rget", "PushStatic", "AuxPop", "Inbox",
                                      "Dup0", "Dup1", "Dup2"} -> 1
                           [] op \in {"Noop", "Xget", "Swap1", "Swap2", "Not", "UnaryMinus",
                                      "BitwiseNeg", "Hash", "Len"} -> 0
                           [] op \in {"Cjump", "Tset", "Xset", "AddMod", "MulMod"} -> -2
                           [] OTHER -> -1
            IN  Len(stack') - before = delta]_vars

\* Dup1 has run on the arguments 3 (top), 0, 1 of a call, leaving 1, 0, 3, 0
C16_Dup1Ran ==
    /\ code = <<Op("Pop"), Op("Dup1")>>
    /\ state = Running(Internal(2))
    /\ Len(stack) = 4
    /\ stack[4] = stack[2]
    /\ stack[3] # stack[4]

\* C17: insert_l1_message(msg_type, sender, payload) leaves the inbox as it
\* was and adds at its tail one buffer: the six 32-byte big-endian words
\* msg_type, current_block_num, current_timestamp, sender, next_inbox_seq_num
\* as it was before the call and len(payload), then the payload.
C17_L1MessageLayout ==
    [][rt_call'.op = "insert_l1_message"
         => LET n == Len(rt_env.l1_inbox)
                b == rt_env'.l1_inbox[n + 1]
                word(k) == SubSeq(b, WordBytes * (k - 1) + 1, WordBytes * k)
                small(k, v) == /\ \A j \in 1..(WordBytes - 1) : word(k)[j] = 0
                               /\ word(k)[WordBytes] = v
            IN  /\ Len(rt_env'.l1_inbox) = n + 1
                /\ SubSeq(rt_env'.l1_inbox, 1, n) = rt_env.l1_inbox
                /\ Len(b) = 6 * WordBytes + Len(rt_call'.msg)
                /\ small(1, rt_call'.msg_type)
                /\ word(2) = rt_env.current_block_num
                /\ word(3) = rt_env.current_timestamp
                /\ word(4) = rt_call'.sender_addr
                /\ word(5) = rt_env.next_inbox_seq_num
                /\ small(6, Len(rt_call'.msg))
                /\ SubSeq(b, 6 * WordBytes + 1, Len(b)) = rt_call'.msg]_vars

\* an L2 message with the payload 1, 2, 3 has joined two messages in the inbox
C17_ThirdMessage ==
    /\ rt_call.op = "insert_l1_message"
    /\ rt_call.msg_type = 3
    /\ rt_call.msg = <<1, 2, 3>>
    /\ Len(rt_env.l1_inbox) = 3

\* C18: next_inbox_seq_num never decreases, grows by exactly 1 with each
\* inserted L1 message and by nothing else, and the k-th message inserted,
\* the chainInit message of type 4 that the constructor inserts being the
\* first, carries k - 1 as its inbox_seq_num.
C18_SeqNumCounts ==
    [][LET seq(b) == SubSeq(b, 4 * WordBytes + 1, 5 * WordBytes)
           Counted(env, sent) ==
               /\ sent[1][WordBytes] = 4
               /\ SmallNat(env.next_inbox_seq_num) = Len(sent)
               /\ \A k \in 1..Len(sent) : seq(sent[k]) = from_usize(k - 1)
               /\ \A j, k \in 1..Len(sent) : j # k => seq(sent[j]) # seq(sent[k])
       IN  /\ ~less_than(rt_env'.next_inbox_seq_num, rt_env.next_inbox_seq_num)
           /\ rt_env'.next_inbox_seq_num =
                 IF rt_call'.op \in {"insert_l1_message", "insert_l2_message"}
                 THEN add(rt_env.next_inbox_seq_num, one)
                 ELSE rt_env.next_inbox_seq_num
           /\ Counted(rt_env, rt_sent)
           /\ Counted(rt_env', rt_sent')]_vars

\* two messages follow the chainInit message: the counter stands at 3
C18_ThreeInserted ==
    /\ Len(rt_sent) = 3
    /\ rt_env.next_inbox_seq_num = from_usize(3)

\* C19: the n-th call of get_and_incr_seq_num for an address returns n - 1,
\* 0 the first time, and leaves the counter of every other address as it was.
C19_SeqNumPerAddress ==
    [][rt_call'.op = "get_and_incr_seq_num"
         => /\ rt_call'.ret = from_usize(rt_asked'[rt_call'.addr] - 1)
            /\ \A a \in Addrs \ {rt_call'.addr} :
                  /\ (a \in DOMAIN rt_env'.caller_seq_nums) = (a \in DOMAIN rt_env.caller_seq_nums)
                  /\ a \in DOMAIN rt_env.caller_seq_nums
                       => rt_env'.caller_seq_nums[a] = rt_env.caller_seq_nums[a]]_vars

\* the second call for one address has returned 1, the other address not asked
C19_SecondCall ==
    /\ rt_call.op = "get_and_incr_seq_num"
    /\ rt_asked[rt_call.addr] = 2
    /\ rt_call.ret = one
    /\ \E a \in Addrs : rt_asked[a] = 0

\* C20: push_log adds the first size bytes of buf as one record to the log
\* sink and to the logs of the recorder, push_send the same to the send sink
\* and the sends of the recorder; neither changes the other sink or the
\* inbox, and the sinks equal what the recorder holds at all times.
C20_SinksMirrored ==
    [][/\ rt_env.logs = rt_env.recorder.logs /\ rt_env.sends = rt_env.recorder.sends
       /\ rt_env'.logs = rt_env'.recorder.logs /\ rt_env'.sends = rt_env'.recorder.sends
       /\ rt_call'.op \in {"push_log", "push_send"}
            => LET size == SmallNat(rt_call'.size)
                   rec  == [i \in 1..size |->
                              IF i <= Len(rt_call'.buf) THEN rt_call'.buf[i] ELSE 0]
                   res  == SubSeq(rec, 1, size)
               IN  /\ rt_env'.l1_inbox = rt_env.l1_inbox
                   /\ rt_env'.logs = IF rt_call'.op = "push_log"
                                     THEN Append(rt_env.logs, res) ELSE rt_env.logs
                   /\ rt_env'.sends = IF rt_call'.op = "push_send"
                                      THEN Append(rt_env.sends, res) ELSE rt_env.sends]_vars

\* a log of two bytes and a send of five, three of them past the end of its buffer
C20_LogAndSend ==
    /\ rt_env.logs = <<<<9, 8>>>>
    /\ rt_env.sends = <<<<6, 5, 0, 0, 0>>>>
    /\ rt_env.recorder.logs = rt_env.logs
    /\ rt_env.recorder.sends = rt_env.sends

\* C21: the inbox of the recorder holds, in insertion order, one entry for
\* each message insert_l1_message has built, and each entry is the whole
\* buffer that joined the L1 inbox, header words and payload.
C21_RecorderHoldsInbox == rt_env.recorder.inbox = rt_sent

\* C22: replay_and_compare with require_same_gas answers true for the
\* recording of a successful run: an environment on which messages were
\* inserted and then a machine was run, replayed with the program of the run.
C22_ReplayMatches ==
    [][(/\ rt_call.op = "run" /\ rt_call.ok
        /\ rt_ops = Len(rt_sent)
        /\ rt_call'.op = "replay_and_compare"
        /\ rt_call'.require_same_gas
        /\ rt_call'.prog = rt_call.prog) => rt_call'.ret]_vars

\* C23: replay_and_compare without require_same_gas answers true when the
\* logs of the replay differ from the recorded ones in gas-variable fields
\* only: the recorded run logged one receipt with gas_used and gas_so_far 1,
\* the replay logs the same receipt with gas_used and gas_so_far 2.
C23_GasFieldsRedacted ==
    [][(/\ rt_call.op = "run" /\ rt_call.ok
        /\ rt_ops = Len(rt_sent)
        /\ rt_call.prog = ArbosProg(1)
        /\ rt_call'.op = "replay_and_compare"
        /\ ~rt_call'.require_same_gas
        /\ rt_call'.prog = ArbosProg(2)) => rt_call'.ret]_vars

\* C24: a byte sequence made a byte stack by bytestack_from_bytes and read back
\* by _bytes_from_bytestack comes back as Some of the same sequence, also when
\* it is empty or its length is an exact multiple of 32.
C24_BytestackRoundTrip ==
    rt_call.op = "_bytes_from_bytestack" => rt_call.after = Some(rt_call.before)

\* a sequence of exactly 64 bytes went through the round trip
C24_TwoFullCells ==
    /\ rt_call.op = "_bytes_from_bytestack"
    /\ Len(rt_call.before) = 64
    /\ rt_call.after.some
    /\ Len(rt_call.after.val) = 64

C26_LinkLayout ==
    (ln_out.op = "link" /\ ln_out.ret.ok)
      => \A progs \in {add_auto_link_progs(ln_out.progs_in).val}, out \in {ln_out.ret.val} :
           LET RECURSIVE Before(_, _)
               Before(i, field) ==
                   IF i = 1 THEN 0 ELSE Before(i - 1, field) + Len(progs[i - 1][field])
               RECURSIVE Leaves(_), Sum(_, _)
               Leaves(v) == IF v = Value_none THEN 1 ELSE Sum(v.items, Len(v.items))
               Sum(items, d) == IF d = 0 THEN 0 ELSE Leaves(items[d]) + Sum(items, d - 1)
           IN  /\ Len(out.code) = 1 + Before(Len(progs) + 1, "code")
               /\ Len(out.imported_funcs) = Before(Len(progs) + 1, "imported_funcs")
               /\ out.code[1].opcode = "Rset" /\ out.code[1].immediate.some
               /\ out.global_num_limit <= 8
                    => out.code[1].immediate.val =
                         Value_Tuple(SubSeq([k \in 1..out.global_num_limit |-> Value_none],
                                            1, out.global_num_limit))
               /\ out.global_num_limit > 8
                    => Leaves(out.code[1].immediate.val) = out.global_num_limit
               /\ \A i \in 1..Len(progs) :
                     /\ \A k \in 1..Len(progs[i].code) :
                          \A a \in {progs[i].code[k]},
                             b \in {out.code[1 + Before(i, "code") + k]} :
                            /\ b.opcode = a.opcode
                            /\ b.immediate.some = a.immediate.some
                            /\ (a.immediate.some /\ a.immediate.val.kind = "CodePoint")
                                 => b.immediate.val = Value_CodePoint(
                                        Internal(a.immediate.val.cp.pc + 1 + Before(i, "code")))
                     /\ \A k \in 1..Len(progs[i].imported_funcs) :
                          out.imported_funcs[Before(i, "imported_funcs") + k] =
                            [progs[i].imported_funcs[k] EXCEPT
                               !.slot_num = @ + Before(i, "imported_funcs")]

\* two programs of seven and four instructions were linked with the builtins
C26_SixteenInstructions ==
    /\ ln_out.op = "link"
    /\ Len(ln_out.progs_in) = 2
    /\ Len(ln_out.progs_in[1].code) = 7
    /\ Len(ln_out.progs_in[2].code) = 4
    /\ Len(ln_out.ret.val.code) = 16

\* C27: the func_offset link hands to the programs, one after the other,
\* never decreases, and the Func labels that mark code of two different
\* programs have different ids in the code link returns, also when a
\* program has no code and no exports.
C27_FuncLabelsApart ==
    (ln_out.op = "link" /\ ln_out.ret.ok)
      => \A progs \in {add_auto_link_progs(ln_out.progs_in).val}, out \in {ln_out.ret.val} :
           LET RECURSIVE Before(_, _)
               Before(i, field) ==
                   IF i = 1 THEN 0 ELSE Before(i - 1, field) + Len(progs[i - 1][field])
               RECURSIVE func_offset(_)
               func_offset(i) ==
                   IF i = 1 THEN 0
                   ELSE relocate(progs[i - 1], 1 + Before(i - 1, "code"),
                                 Before(i - 1, "imported_funcs"), func_offset(i - 1),
                                 0).max_func_offset
               Funcs(i) == {out.code[1 + Before(i, "code") + k].label.id :
                              k \in {n \in 1..Len(progs[i].code) :
                                       progs[i].code[n].opcode = "Label"}}
           IN  /\ \A i \in 1..Len(progs) : func_offset(i) <= func_offset(i + 1)
               /\ \A i, j \in 1..Len(progs) : i < j => Funcs(i) \cap Funcs(j) = {}

\* C28: in the code link returns, a label External(slot) held by an immediate
\* is the label of an export of the same name when the import of that slot
\* has one, whatever the type of the export, and is the relocated
\* External(slot) when it has none; link returns Ok in both cases.
C28_ImportsResolved ==
    ln_out.op = "link"
      => /\ ln_out.ret.ok
         /\ \A progs \in {add_auto_link_progs(ln_out.progs_in).val}, out \in {ln_out.ret.val} :
              LET RECURSIVE Before(_, _)
                  Before(i, field) ==
                      IF i = 1 THEN 0 ELSE Before(i - 1, field) + Len(progs[i - 1][field])
                  Exported(name) == {out.exported_funcs[e].label :
                                       e \in {n \in 1..Len(out.exported_funcs) :
                                                out.exported_funcs[n].name = name}}
              IN  \A i \in 1..Len(progs) : \A k \in 1..Len(progs[i].code) :
                    \A a \in {progs[i].code[k]}, b \in {out.code[1 + Before(i, "code") + k]} :
                      (/\ a.immediate.some
                       /\ a.immediate.val.kind = "Label"
                       /\ a.immediate.val.label.kind = "External")
                        => \A imp \in {progs[i].imported_funcs[n] :
                                          n \in {m \in 1..Len(progs[i].imported_funcs) :
                                                   progs[i].imported_funcs[m].slot_num =
                                                      a.immediate.val.label.id}} :
                             /\ b.immediate.val.kind = "Label"
                             /\ IF Exported(imp.name) # {}
                                THEN b.immediate.val.label \in Exported(imp.name)
                                ELSE b.immediate.val.label =
                                       [kind |-> "External",
                                        id |-> imp.slot_num + Before(i, "imported_funcs")]

\* a link with an import of another type than its export and an import that
\* no program exports
C28_WarnedAndUnresolved ==
    /\ ln_out.op = "link"
    /\ ln_out.ret.ok
    /\ ln_out.ret.warnings > 0
    /\ \E k \in 1..Len(ln_out.ret.val.code) :
          /\ ln_out.ret.val.code[k].immediate.some
          /\ ln_out.ret.val.code[k].immediate.val.kind = "Label"
          /\ ln_out.ret.val.code[k].immediate.val.label.kind = "External"

\* C29: relocate by (0, 0, 0) returns the code, the exports and the imports
\* of the program as they are, and relocate by any offsets keeps the number
\* and the order of the instructions, of the exports and of the imports.
C29_RelocateKeepsShape ==
    ln_out.op = "relocate"
      => \A p \in {ln_out.prog}, r \in {ln_out.ret.prog} :
           /\ (ln_out.int_offset = 0 /\ ln_out.ext_offset = 0 /\ ln_out.func_offset = 0)
                => /\ r.code = p.code
                   /\ r.exported_funcs = p.exported_funcs
                   /\ r.imported_funcs = p.imported_funcs
           /\ Len(r.code) = Len(p.code)
           /\ \A k \in 1..Len(p.code) : r.code[k].opcode = p.code[k].opcode
           /\ Len(r.exported_funcs) = Len(p.exported_funcs)
           /\ \A k \in 1..Len(p.exported_funcs) :
                r.exported_funcs[k].name = p.exported_funcs[k].name
           /\ Len(r.imported_funcs) = Len(p.imported_funcs)
           /\ \A k \in 1..Len(p.imported_funcs) :
                r.imported_funcs[k].name = p.imported_funcs[k].name

\* the program with two imports was relocated by (0, 0, 0)
C29_ZeroOffsets ==
    /\ ln_out.op = "relocate"
    /\ ln_out.int_offset = 0 /\ ln_out.ext_offset = 0 /\ ln_out.func_offset = 0
    /\ Len(ln_out.prog.imported_funcs) = 2
    /\ ln_out.ret.prog.code = ln_out.prog.code

\* C30: when postlink_compile returns Ok, the four passes have run in their
\* order (no access to a global is left, the only Noops are the Label
\* instructions that strip_labels rewrote after peephole had deleted the
\* others), no instruction is a Label, no immediate and no leaf of the static
\* value is a label, and every code point is Internal; when a label held by
\* an immediate has no site, it returns the CompileError and no program.
C30_PostlinkStripsLabels ==
    (ln_out.op = "link" /\ ln_out.ret.ok)
      => \A linked \in {ln_out.ret.val.code}, done \in {ln_out.completed} :
           /\ done.ok
                => /\ \A k \in 1..Len(done.val.code) :
                        \A insn \in {done.val.code[k]} :
                          /\ insn.opcode \notin {"Label", "GetGlobalVar", "SetGlobalVar"}
                          /\ insn.immediate.some
                               => /\ insn.immediate.val.kind # "Label"
                                  /\ insn.immediate.val.kind = "CodePoint"
                                       => insn.immediate.val.cp.kind = "Internal"
                   /\ Cardinality({k \in 1..Len(done.val.code) :
                                     done.val.code[k] = from_opcode("Noop")})
                        = Cardinality({k \in 1..Len(linked) : linked[k].opcode = "Label"})
                   /\ \A k \in 1..Len(done.val.static_val.items) :
                        /\ done.val.static_val.items[k].kind = "CodePoint"
                        /\ done.val.static_val.items[k].cp.kind = "Internal"
                   /\ \A k \in 1..Len(done.val.exported_funcs) :
                        done.val.exported_funcs[k].codept.kind = "Internal"
           /\ (\E k \in 1..Len(linked) :
                 /\ linked[k].immediate.some
                 /\ linked[k].immediate.val.kind = "Label"
                 /\ \A n \in 1..Len(linked) :
                      linked[n].opcode = "Label" => linked[n].label # linked[k].immediate.val.label)
                => done = [ok |-> FALSE, err |-> "reference to non-existent function"]

\* a program with labels, a Noop, a reference back to a label and a global
\* came out of postlink_compile, two code points in its static value
C30_LinkedProgram ==
    /\ ln_out.op = "link"
    /\ Len(ln_out.progs_in) = 1
    /\ Len(ln_out.progs_in[1].code) = 7
    /\ ln_out.completed.ok
    /\ Len(ln_out.completed.val.static_val.items) = 2

C32_FormatSelectsOutput ==
    ((ln_out.op = "link" /\ ln_out.completed.ok) \/ ln_out.op = "to_output")
      => \A self \in {IF ln_out.op = "link" THEN ln_out.completed.val ELSE ln_out.self},
            format \in {ln_out.format}, written \in {ln_out.written} :
           /\ (format = None \/ format = Some("json"))
                => /\ Len(written) = 1
                   /\ DOMAIN written[1] = {"text", "val"}
                   /\ written[1].text = "json" /\ written[1].val = self
           /\ format = Some("pretty")
                => /\ Len(written) = Len(self.code) + (IF ln_out.op = "link" THEN 3 ELSE 2)
                   /\ \A k \in 1..Len(written) : "text" \in DOMAIN written[k]
                   /\ written[1].text = "exported: " /\ written[1].val = self.exported_funcs
                   /\ written[2].text = "imported: " /\ written[2].val = self.imported_funcs
                   /\ ln_out.op = "link"
                        => written[3].text = "static: " /\ written[3].val = self.static_val
                   /\ \A k \in 1..Len(self.code) :
                        \A line \in {written[Len(written) - Len(self.code) + k]} :
                          line.text = "insn" /\ line.idx = k - 1 /\ line.val = self.code[k]
           /\ format = Some("bincode")
                => /\ Len(written) = 1
                   /\ DOMAIN written[1] = {"bytes", "val"}
                   /\ written[1].bytes = "bincode" /\ written[1].val = self
           /\ (format.some /\ format.val \notin {"json", "pretty", "bincode"})
                => /\ Len(written) = 1
                   /\ DOMAIN written[1] = {"text", "val"}
                   /\ written[1].text = "invalid format: " /\ written[1].val = format.val

\* the compile subcommand was given a format it does not know and wrote the
\* one line for a program of sixteen instructions
C32_UnknownFormat ==
    /\ ln_out.op = "link"
    /\ ln_out.completed.ok
    /\ Len(ln_out.completed.val.code) >= 16
    /\ ln_out.format = Some("yaml")
    /\ Len(ln_out.written) = 1

\* C33: when main has returned from the compile subcommand with the exit code
\* 0, every input file was compiled, link returned Ok and postlink_compile
\* returned Ok.
C33_ExitCodeZeroOnlyOnSuccess ==
    (ln_out.op = "link" /\ ln_out.exit_code = 0)
      => /\ ln_out.errors = <<>>
         /\ ln_out.ret.ok
         /\ ln_out.completed.ok

\* C34: the inbox is a queue. insert_l1_message and insert_l2_message put
\* their message behind the messages that wait; get_from_inbox returns the
\* message that has waited longest and removes it and nothing else, so every
\* message is returned once, in the order of insertion; on an empty inbox it
\* returns None and leaves the environment as it is; peek_at_inbox_head
\* returns what get_from_inbox would return and leaves the environment as it
\* is.
C34_InboxIsFifo ==
    [][\A inbox \in {rt_env.l1_inbox}, c \in {rt_call'} :
         /\ c.op \in {"insert_l1_message", "insert_l2_message"}
              => /\ Len(rt_env'.l1_inbox) = Len(inbox) + 1
                 /\ SubSeq(rt_env'.l1_inbox, 1, Len(inbox)) = inbox
         /\ c.op = "get_from_inbox"
              => /\ inbox = <<>> => c.ret = None /\ rt_env' = rt_env
                 /\ inbox # <<>>
                      => /\ c.ret = Some(inbox[1])
                         /\ rt_env' = [rt_env EXCEPT !.l1_inbox = Tail(inbox)]
         /\ c.op = "peek_at_inbox_head"
              => /\ c.ret = get_from_inbox(inbox).val
                 /\ rt_env' = rt_env]_vars

\* the chainInit message has been taken from an inbox in which a message
\* inserted after it still waits
C34_OldestFirst ==
    /\ rt_call.op = "get_from_inbox"
    /\ Len(rt_sent) = 2
    /\ rt_call.ret = Some(rt_sent[1])
    /\ rt_env.l1_inbox = <<rt_sent[2]>>

\* C35: no step of the machine changes its code or its static value, and no
\* instruction hands back another static value than it was given; PushStatic
\* pushes the static value of the constructor; the register changes only in
\* the step of an Rset that succeeds, and then to the value the Rset popped;
\* reset empties both stacks, sets the state to Stopped and leaves the
\* register, the code and the static value as they are.
C35_CodeStaticRegister ==
    [][/\ code' = code
       /\ static_val' = static_val
       /\ (phase = "run" /\ ~panicked /\ state.kind = "Running" /\ ~AtStop)
            => run_one(code, Mach).m.static_val = static_val
       /\ (last' = "ok" /\ Fetched.some /\ Fetched.val.opcode = "PushStatic")
            => stack' = stack \o (IF Fetched.val.immediate.some
                                  THEN <<Fetched.val.immediate.val>> ELSE <<>>)
                              \o <<static_val>>
       /\ register' # register
            => last' = "ok" /\ Fetched.some /\ Fetched.val.opcode = "Rset"
       /\ (last' = "ok" /\ Fetched.some /\ Fetched.val.opcode = "Rset")
            => register' = IF Fetched.val.immediate.some THEN Fetched.val.immediate.val
                           ELSE stack[Len(stack)]
       /\ last' = "reset"
            => /\ stack' = <<>> /\ aux_stack' = <<>> /\ state' = Stopped
               /\ register' = register]_vars

\* the machine has been reset with a value in its register that an Rset put
\* there
C35_ResetKeepsRegister ==
    /\ last = "reset"
    /\ register # Value_none
    /\ stack = <<>>
    /\ state = Stopped

C37_SendsComeFromLogs ==
    [][/\ rt_call'.op = "get_all_sends" =>
            LET sent == SelectSeq(rt_env.logs,
                                  LAMBDA log : /\ Len(log) >= 2 * WordBytes
                                               /\ SubSeq(log, 1, WordBytes) = from_usize(2))
            IN  /\ Len(rt_call'.ret) = Len(sent)
                /\ \A i \in 1..Len(sent) :
                      /\ SubSeq(sent[i], WordBytes + 1, 2 * WordBytes)
                            = from_usize(Len(rt_call'.ret[i]))
                      /\ sent[i] = SubSeq(sent[i], 1, 2 * WordBytes) \o rt_call'.ret[i]
       /\ rt_env'.logs = rt_env.logs => get_all_sends(rt_env') = get_all_sends(rt_env)
       /\ rt_call'.op = "push_send" =>
            /\ rt_env'.logs = rt_env.logs
            /\ get_all_sends(rt_env') = get_all_sends(rt_env)]_vars

\* push_send was given a record shaped like a send (first word 2, no payload)
\* while the logs held a send record with payload <<5, 6, 7>>: get_all_sends
\* is that payload alone
C37_SendRecordNotReturned ==
    /\ rt_call.op = "push_send"
    /\ Len(rt_call.buf) = 2 * WordBytes
    /\ SubSeq(rt_call.buf, 1, WordBytes) = from_usize(2)
    /\ rt_call.buf \in {rt_env.sends[i] : i \in 1..Len(rt_env.sends)}
    /\ Len(rt_env.logs) = 1
    /\ get_all_sends(rt_env) = <<<<5, 6, 7>>>>

\* C38: insert_full_inbox_contents(contents) makes contents the inbox: the
\* messages that waited, the chainInit message of the constructor among them,
\* are gone unless contents holds them; next_inbox_seq_num, the recorder, the
\* logs, the sends, the per-sender sequence numbers and every other field of
\* the environment stay as they were.
C38_FullInboxReplaces ==
    [][rt_call'.op = "insert_full_inbox_contents" =>
         /\ rt_env'.l1_inbox = rt_call'.contents
         /\ \A i \in 1..Len(rt_env.l1_inbox) :
               rt_env.l1_inbox[i] \in {rt_env'.l1_inbox[j] : j \in 1..Len(rt_env'.l1_inbox)}
                  => rt_env.l1_inbox[i] \in {rt_call'.contents[j] : j \in 1..Len(rt_call'.contents)}
         /\ rt_env'.next_inbox_seq_num = rt_env.next_inbox_seq_num
         /\ rt_env'.recorder = rt_env.recorder
         /\ rt_env'.logs = rt_env.logs
         /\ rt_env'.sends = rt_env.sends
         /\ rt_env'.caller_seq_nums = rt_env.caller_seq_nums
         /\ DOMAIN rt_env' = DOMAIN rt_env
         /\ \A f \in DOMAIN rt_env \ {"l1_inbox"} : rt_env'[f] = rt_env[f]]_vars

\* the chainInit message and a message inserted after it waited when the
\* inbox was replaced by two other messages: neither is in the inbox, both
\* are still in the recorder, and the counter still stands at 2
C38_ChainInitDiscarded ==
    /\ rt_call.op = "insert_full_inbox_contents"
    /\ Len(rt_sent) = 2
    /\ rt_env.l1_inbox = <<<<7>>, <<8>>>>
    /\ rt_env.recorder.inbox # <<>>
    /\ rt_env.next_inbox_seq_num = from_usize(2)

\* C39: when the programs that are linked (the inputs, then the builtins) hold
\* two exports of one name, every instruction that refers to an import of
\* that name holds, in the code link returns, the label of the last of these
\* exports in link order; the exports of the merged program are the exports
\* of all the programs in link order, so both exports are among them.
C39_LastExportWins ==
    (ln_out.op = "link" /\ ln_out.ret.ok)
      => \A progs \in {add_auto_link_progs(ln_out.progs_in).val}, out \in {ln_out.ret.val} :
           LET RECURSIVE Before(_, _)
               Before(i, field) ==
                   IF i = 1 THEN 0 ELSE Before(i - 1, field) + Len(progs[i - 1][field])
               Exports(name) == {n \in 1..Len(out.exported_funcs) :
                                   out.exported_funcs[n].name = name}
               Latest(name) == CHOOSE n \in Exports(name) : \A m \in Exports(name) : m <= n
           IN  /\ Len(out.exported_funcs) = Before(Len(progs) + 1, "exported_funcs")
               /\ \A i \in 1..Len(progs) : \A e \in 1..Len(progs[i].exported_funcs) :
                     out.exported_funcs[Before(i, "exported_funcs") + e].name
                        = progs[i].exported_funcs[e].name
               /\ \A i \in 1..Len(progs) : \A k \in 1..Len(progs[i].code) :
                     \A a \in {progs[i].code[k]}, b \in {out.code[1 + Before(i, "code") + k]} :
                       (/\ a.immediate.some
                        /\ a.immediate.val.kind = "Label"
                        /\ a.immediate.val.label.kind = "External")
                         => \A imp \in {progs[i].imported_funcs[n] :
                                           n \in {m \in 1..Len(progs[i].imported_funcs) :
                                                    progs[i].imported_funcs[m].slot_num =
                                                       a.immediate.val.label.id}} :
                              Cardinality(Exports(imp.name)) >= 2
                                => /\ b.immediate.val.kind = "Label"
                                   /\ b.immediate.val.label
                                         = out.exported_funcs[Latest(imp.name)].label

\* a link of two programs that both export f, the first of them importing f:
\* the two exports are in the export list with different labels, and the
\* import holds the label of the second
C39_TwoExportsOfF ==
    /\ ln_out.op = "link"
    /\ ln_out.ret.ok
    /\ Len(ln_out.progs_in) = 2
    /\ ln_out.progs_in[1].imported_funcs # <<>>
    /\ \A out \in {ln_out.ret.val} :
          /\ out.exported_funcs[1].name = "f"
          /\ out.exported_funcs[2].name = "f"
          /\ out.exported_funcs[1].label # out.exported_funcs[2].label
          /\ out.code[3].immediate.val.label = out.exported_funcs[2].label

\* C40: compress_address returns 148 and the low 20 bytes of an address
\* that is not in the table and registers next_index for it, next_index
\* moving on by one; for an address in the table it returns the RLP encoding
\* of the index registered for it (the byte i for an index i below 128) and
\* changes nothing. The indices registered are 1, 2, 3, ... in the order in
\* which the addresses came: no two addresses have the same index, and the
\* index of an address never changes.
C40_CompressAddress ==
    [][\A self \in {rt_env.compressor}, next \in {rt_env'.compressor}, c \in {rt_call'} :
         LET Registered(t) == {t.address_map[a] : a \in DOMAIN t.address_map}
             Numbered(t) ==
                 /\ Registered(t) = {<<i>> : i \in 1..(t.next_index - 1)}
                 /\ Cardinality(DOMAIN t.address_map) = t.next_index - 1
                 /\ \A a, b \in DOMAIN t.address_map :
                       a # b => t.address_map[a] # t.address_map[b]
         IN  /\ Numbered(self)
             /\ Numbered(next)
             /\ \A a \in DOMAIN self.address_map :
                   a \in DOMAIN next.address_map /\ next.address_map[a] = self.address_map[a]
             /\ c.op # "compress_address" => next = self
             /\ c.op = "compress_address" =>
                   IF c.addr \in DOMAIN self.address_map
                   THEN c.ret = self.address_map[c.addr] /\ next = self
                   ELSE /\ c.ret = <<148>> \o SubSeq(c.addr, 13, 32)
                        /\ Len(c.ret) = 21
                        /\ DOMAIN next.address_map = DOMAIN self.address_map \cup {c.addr}
                        /\ next.address_map[c.addr] = <<self.next_index>>
                        /\ next.next_index = self.next_index + 1]_vars

\* the second address asked for was registered under the index 2, the first
\* keeping the index 1, though both have the same low 20 bytes
C40_SecondAddress ==
    /\ rt_call.op = "compress_address"
    /\ rt_env.compressor.next_index = 3
    /\ rt_env.compressor.address_map[rt_call.addr] = <<2>>
    /\ \E a \in DOMAIN rt_env.compressor.address_map :
          /\ a # rt_call.addr
          /\ rt_env.compressor.address_map[a] = <<1>>
          /\ SubSeq(a, 13, 32) = SubSeq(rt_call.addr, 13, 32)
====
